---- MODULE Spec2Model ----
(***************************************************************************)
(* Model of the relayer's swap-and-bridge plan builder                      *)
(* (bridger/relayer/app): route-quote decoding, swap parameter building,    *)
(* bridge call building and the preflight validations run by                *)
(* RelayerExecutor.prepare_plan.                                            *)
(***************************************************************************)
EXTENDS Integers, Sequences, FiniteSets, TLC

(***************************************************************************)
(* Bounds of the model.                                                     *)
(***************************************************************************)
\* longest whitelist drawn for a pass
MaxTokens == 2
\* largest holding balance / allowance the chain reader returns
MaxBalance == 1
\* largest settlement-asset residue held by the destination contract
MaxResidue == 1
\* the configured dust threshold (defaults.usdc_threshold, positive)
usdc_threshold == 2

(***************************************************************************)
(* Addresses.  An address is a 20-byte number (id) in one of the textual    *)
(* forms the code handles; id 0 is the zero address, whose text has no      *)
(* letters and therefore a single form.                                     *)
(***************************************************************************)
Address(id, form) == [id |-> id, form |-> IF id = 0 THEN "checksum" ELSE form]

Malformed == [id |-> 0 - 1, form |-> "malformed"]

is_address(a) == a.form # "malformed"

\* Web3.to_checksum_address: defined on well-formed addresses only (raises otherwise)
to_checksum_address(a) == Address(a.id, "checksum")

\* Web3.is_checksum_address
is_checksum_address(a) == a.form = "checksum"

\* str.lower() on an address string
lower(a) == IF is_address(a) THEN Address(a.id, "lower") ELSE a

ZERO_ADDRESS == Address(0, "checksum")

(***************************************************************************)
(* Bytes and hex strings.  Bytes are sequences of 0..255; a hex string is   *)
(* an optional "0x" prefix and a sequence of hex digits 0..15.              *)
(***************************************************************************)
RECURSIVE bytes_hex_digits(_)
bytes_hex_digits(b) ==
    IF b = <<>> THEN <<>>
    ELSE <<Head(b) \div 16, Head(b) % 16>> \o bytes_hex_digits(Tail(b))

\* bytes.hex(): lowercase digits, no prefix
bytes_hex(b) == [pfx |-> FALSE, digits |-> bytes_hex_digits(b)]

\* the literal "0x"
HEX_0X == [pfx |-> TRUE, digits |-> <<>>]

RECURSIVE fromhex(_)
fromhex(d) ==
    IF Len(d) < 2 THEN <<>>
    ELSE <<16 * d[1] + d[2]>> \o fromhex(Tail(Tail(d)))

\* bytes.fromhex raises ValueError on an odd number of digits
hex_ok(h) == Len(h.digits) % 2 = 0

\* hex_to_bytes: strip the prefix, then bytes.fromhex
hex_to_bytes(h) == fromhex(h.digits)

(***************************************************************************)
(* Route payloads.  The calldata returned by the route-quoting service is   *)
(* modelled by what ABI decoding sees in it: the function its selector      *)
(* names, whether the arguments parse under that function's types, and the  *)
(* argument values (addresses as the ABI decoder hands them over, without   *)
(* checksum casing).  Fields of the shape that is not present are empty.    *)
(***************************************************************************)
ExecutorEntry(address, value, data) == [executor |-> address, value |-> value, data |-> data]

TxData(fn, intact, execs, address, data) ==
    [fn |-> fn, intact |-> intact, executors |-> execs, executor |-> address, executorData |-> data]

\* contract.decode_function_input against the snwapMultiple ABI succeeds
multiple_decodes(tx) == tx.fn = "snwapMultiple" /\ tx.intact

\* contract.decode_function_input against the inline snwap ABI succeeds
snwap_decodes(tx) == tx.fn = "snwap" /\ tx.intact

\* one entry of result["executors"] in _decode_snwap_multiple
decode_executor(e) ==
    [executor |-> to_checksum_address(e.executor),
     value |-> e.value,
     data |-> bytes_hex(e.data)]

\* _decode_snwap_multiple: the decoded dict (defined when multiple_decodes)
_decode_snwap_multiple(tx) ==
    [function |-> tx.fn,
     executors |-> [i \in 1 .. Len(tx.executors) |-> decode_executor(tx.executors[i])]]

\* _decode_snwap: the decoded dict (defined when snwap_decodes)
_decode_snwap(tx) ==
    [function |-> tx.fn,
     executor |-> to_checksum_address(tx.executor),
     executorData |-> IF tx.executorData # <<>> THEN bytes_hex(tx.executorData) ELSE HEX_0X]

NoDecode == [ok |-> FALSE, shape |-> "none", legacy |-> TRUE,
             executor |-> Malformed, executor_data |-> HEX_0X]

\* decode_route answering an empty executor call where no shape decodes
decode_route_lenient(tx) ==
    IF multiple_decodes(tx) /\ Len(_decode_snwap_multiple(tx).executors) >= 1
    THEN LET executor == _decode_snwap_multiple(tx).executors[1]
         IN [ok |-> TRUE, shape |-> "multi", legacy |-> FALSE,
             executor |-> to_checksum_address(executor.executor),
             executor_data |-> executor.data]
    ELSE IF snwap_decodes(tx)
         THEN [ok |-> TRUE, shape |-> "legacy", legacy |-> TRUE,
               executor |-> _decode_snwap(tx).executor,
               executor_data |-> _decode_snwap(tx).executorData]
         ELSE [ok |-> TRUE, shape |-> "none", legacy |-> TRUE,
               executor |-> ZERO_ADDRESS, executor_data |-> HEX_0X]

\* decode_route taking the last executor entry of the array
decode_route_last(tx) ==
    IF multiple_decodes(tx) /\ Len(_decode_snwap_multiple(tx).executors) >= 1
    THEN LET executor == _decode_snwap_multiple(tx).executors[Len(tx.executors)]
         IN [ok |-> TRUE, shape |-> "multi", legacy |-> FALSE,
             executor |-> to_checksum_address(executor.executor),
             executor_data |-> executor.data]
    ELSE IF snwap_decodes(tx)
         THEN [ok |-> TRUE, shape |-> "legacy", legacy |-> TRUE,
               executor |-> _decode_snwap(tx).executor,
               executor_data |-> _decode_snwap(tx).executorData]
         ELSE NoDecode

\* the try/except of request_swap_route: multi-execution first, legacy on
\* any failure of the first attempt (IndexError on an empty array included)
decode_route(tx) ==
    IF multiple_decodes(tx) /\ Len(_decode_snwap_multiple(tx).executors) >= 1
    THEN LET executor == _decode_snwap_multiple(tx).executors[1]
         IN [ok |-> TRUE, shape |-> "multi", legacy |-> FALSE,
             executor |-> to_checksum_address(executor.executor),
             executor_data |-> executor.data]
    ELSE IF snwap_decodes(tx)
         THEN [ok |-> TRUE, shape |-> "legacy", legacy |-> TRUE,
               executor |-> _decode_snwap(tx).executor,
               executor_data |-> _decode_snwap(tx).executorData]
         ELSE NoDecode

(***************************************************************************)
(* Route quote responses and request_swap_route.                            *)
(*   transport: "ok" or "fail" (requests.RequestException, non-2xx status)  *)
(*   status:    the payload's "status" field                                *)
(*   has_tx:    payload["tx"]["data"] is present and non-empty              *)
(*   rpc:       what the connection check after decoding finds              *)
(***************************************************************************)
RouteResponse(transport, status, has_tx, tx, amountIn, assumedAmountOut, rpc) ==
    [transport |-> transport, status |-> status, has_tx |-> has_tx, tx |-> tx,
     amountIn |-> amountIn, assumedAmountOut |-> assumedAmountOut, rpc |-> rpc]

QuoteFailure(err, legacy) ==
    [ok |-> FALSE, err |-> err, shape |-> "none", legacy |-> legacy,
     executor |-> Malformed, executor_data |-> <<>>,
     amount_in |-> 0, assumed_amount_out |-> 0]

\* request_swap_route: the SushiQuoteResult, or the error raised
request_swap_route(r) ==
    IF r.transport # "ok" THEN QuoteFailure("ConnectionError: fetch", FALSE)
    ELSE IF r.status # "Success" THEN QuoteFailure("ValueError: status", FALSE)
    ELSE IF ~r.has_tx THEN QuoteFailure("ValueError: missing payload", FALSE)
    ELSE IF ~decode_route(r.tx).ok THEN QuoteFailure("ValueError: decode", TRUE)
    ELSE IF r.rpc = "down" THEN QuoteFailure("ConnectionError: rpc", decode_route(r.tx).legacy)
    ELSE IF r.rpc = "wrong_chain" THEN QuoteFailure("ValueError: chain id", decode_route(r.tx).legacy)
    ELSE IF ~hex_ok(decode_route(r.tx).executor_data) THEN QuoteFailure("ValueError: hex", decode_route(r.tx).legacy)
    ELSE [ok |-> TRUE, err |-> "",
          shape |-> decode_route(r.tx).shape,
          legacy |-> decode_route(r.tx).legacy,
          executor |-> decode_route(r.tx).executor,
          executor_data |-> hex_to_bytes(decode_route(r.tx).executor_data),
          amount_in |-> r.amountIn,
          assumed_amount_out |-> r.assumedAmountOut]

(***************************************************************************)
(* Decimal arithmetic of the slippage step.  Integers of any size are       *)
(* sequences of decimal digits, most significant first, without leading     *)
(* zeros (zero is <<0>>).  A Decimal is a coefficient and an exponent.      *)
(* Python's default decimal context has 28 significant digits and rounds    *)
(* half-even; quantize raises InvalidOperation when its result needs more   *)
(* digits than the context has.                                             *)
(***************************************************************************)
DecimalPrec == 28

RECURSIVE Digits(_)
Digits(n) == IF n < 10 THEN <<n>> ELSE Digits(n \div 10) \o <<n % 10>>

RECURSIVE IntOf(_)
IntOf(d) == IF d = <<>> THEN 0 ELSE 10 * IntOf(SubSeq(d, 1, Len(d) - 1)) + d[Len(d)]

RECURSIVE Normalize(_)
Normalize(d) ==
    IF d = <<>> THEN <<0>>
    ELSE IF Len(d) > 1 /\ Head(d) = 0 THEN Normalize(Tail(d))
    ELSE d

Zeros(n) == [i \in 1 .. n |-> 0]

IsZero(d) == \A i \in 1 .. Len(d) : d[i] = 0

RECURSIVE MulCarry(_, _, _)
MulCarry(d, c, carry) ==
    IF d = <<>> THEN (IF carry = 0 THEN <<>> ELSE Digits(carry))
    ELSE LET p == d[Len(d)] * c + carry
         IN MulCarry(SubSeq(d, 1, Len(d) - 1), c, p \div 10) \o <<p % 10>>

\* exact product of a digit sequence and a small natural number
MulSmall(d, c) == Normalize(MulCarry(d, c, 0))

RECURSIVE AddOne(_)
AddOne(d) ==
    IF d = <<>> THEN <<1>>
    ELSE IF d[Len(d)] < 9 THEN [d EXCEPT ![Len(d)] = d[Len(d)] + 1]
    ELSE AddOne(SubSeq(d, 1, Len(d) - 1)) \o <<0>>

\* d1 <= d2 for normalized digit sequences
RECURSIVE LexLeq(_, _)
LexLeq(d1, d2) ==
    IF d1 = <<>> THEN TRUE
    ELSE IF Head(d1) # Head(d2) THEN Head(d1) < Head(d2)
    ELSE LexLeq(Tail(d1), Tail(d2))

DigitsLeq(d1, d2) ==
    IF Len(d1) # Len(d2) THEN Len(d1) < Len(d2) ELSE LexLeq(d1, d2)

\* a tolerance as Decimal(str(t)) reads it: coefficient c and k fraction digits
Tolerance(c, k) == [c |-> c, k |-> k]

\* the context rounding of an arithmetic result: at most DecimalPrec
\* significant digits, ROUND_HALF_EVEN
ContextRound(x) ==
    IF Len(x.coef) <= DecimalPrec THEN x
    ELSE LET kept == SubSeq(x.coef, 1, DecimalPrec)
             rest == SubSeq(x.coef, DecimalPrec + 1, Len(x.coef))
             n    == Len(rest)
             up   == \/ rest[1] > 5
                     \/ /\ rest[1] = 5
                        /\ \/ ~IsZero(Tail(rest))
                           \/ kept[DecimalPrec] % 2 = 1
             r    == IF up THEN AddOne(kept) ELSE kept
         IN IF Len(r) > DecimalPrec
            THEN [coef |-> SubSeq(r, 1, DecimalPrec), exp |-> x.exp + n + 1]
            ELSE [coef |-> r, exp |-> x.exp + n]

\* Decimal(a) * multiplier under the context
DecimalMul(a, t) == ContextRound([coef |-> MulSmall(a, t.c), exp |-> 0 - t.k])

\* x.quantize(Decimal("1"), rounding=ROUND_DOWN) raises InvalidOperation
QuantizeInvalid(x) == ~IsZero(x.coef) /\ Len(x.coef) + x.exp > DecimalPrec

\* x.quantize(Decimal("1"), rounding=ROUND_DOWN), then int()
QuantizeDown(x) ==
    IF IsZero(x.coef) THEN <<0>>
    ELSE IF x.exp >= 0 THEN x.coef \o Zeros(x.exp)
    ELSE IF 0 - x.exp >= Len(x.coef) THEN <<0>>
    ELSE SubSeq(x.coef, 1, Len(x.coef) + x.exp)

\* min_out of build_swap_parameters for assumed output a (digits) and
\* slippage multiplier t: the digits of the result, or the error raised
min_out_of(a, t) ==
    IF QuantizeInvalid(DecimalMul(a, t))
    THEN [ok |-> FALSE, value |-> <<0>>]
    ELSE [ok |-> TRUE, value |-> QuantizeDown(DecimalMul(a, t))]

\* floor(a * t) computed exactly
ExactFloor(a, t) ==
    LET p == MulSmall(a, t.c)
    IN IF t.k >= Len(p) THEN <<0>> ELSE SubSeq(p, 1, Len(p) - t.k)

(***************************************************************************)
(* Configuration (RelayerConfig).  Symbols are numbered in their sort       *)
(* order.  Whitelists are drawn with distinct symbols (mapping keys); two   *)
(* symbols may name the same token address.                                 *)
(***************************************************************************)
TokenConfig(symbol, address) == [symbol |-> symbol, address |-> address]

TOKEN_A == Address(1, "checksum")
TOKEN_B == Address(2, "checksum")
EXECUTOR_X == Address(3, "lower")
EXECUTOR_Y == Address(4, "lower")
usdc_address == Address(5, "checksum")
revenue_bridger_address == Address(6, "checksum")
chwmper_address == Address(7, "checksum")
lifi_diamond_address == Address(8, "checksum")
mainnet_recipient == Address(9, "checksum")

TokenAddresses == {TOKEN_A, TOKEN_B}

TokenConfigs == {TokenConfig(1, TOKEN_A), TokenConfig(2, TOKEN_B), TokenConfig(3, TOKEN_A)}

RECURSIVE SeqsUpTo(_, _)
SeqsUpTo(S, n) ==
    IF n = 0 THEN {<<>>}
    ELSE SeqsUpTo(S, n - 1) \cup
         {Append(q, x) : q \in {r \in SeqsUpTo(S, n - 1) : Len(r) = n - 1}, x \in S}

Whitelists ==
    {w \in SeqsUpTo(TokenConfigs, MaxTokens) :
        \A i, j \in 1 .. Len(w) : i # j => w[i].symbol # w[j].symbol}

\* defaults.slippage_tolerance as Decimal(str(t)): 0.98 and 1.0
PassTolerances == {Tolerance(98, 2), Tolerance(10, 1)}

RECURSIVE InsertBySymbol(_, _)
InsertBySymbol(sorted, token) ==
    IF sorted = <<>> THEN <<token>>
    ELSE IF token.symbol < Head(sorted).symbol THEN <<token>> \o sorted
    ELSE <<Head(sorted)>> \o InsertBySymbol(Tail(sorted), token)

\* _iter_whitelisted_tokens keeping the configuration order
_iter_config_order(tokens) == tokens

\* _iter_whitelisted_tokens: sorted(tokens, key=symbol), a stable sort
RECURSIVE _iter_whitelisted_tokens(_)
_iter_whitelisted_tokens(tokens) ==
    IF tokens = <<>> THEN <<>>
    ELSE InsertBySymbol(_iter_whitelisted_tokens(SubSeq(tokens, 1, Len(tokens) - 1)),
                        tokens[Len(tokens)])

(***************************************************************************)
(* The chain connection.  ensure_web3_connected raises ConnectionError      *)
(* when the endpoint is down and, when a chain id is expected, ValueError   *)
(* when the endpoint answers for another chain.                             *)
(***************************************************************************)
Connections == {"ok", "down", "wrong_chain"}

ensure_web3_connected(conn, expects_chain) ==
    IF conn = "down" THEN "ConnectionError: rpc"
    ELSE IF expects_chain /\ conn = "wrong_chain" THEN "ValueError: chain id"
    ELSE ""

(***************************************************************************)
(* Answers of the route-quoting service drawn during a pass.                *)
(***************************************************************************)
AssumedOuts == {usdc_threshold - 1, usdc_threshold, usdc_threshold + 1}

MultiTx == TxData("snwapMultiple", TRUE,
                  <<ExecutorEntry(EXECUTOR_X, 1, <<171>>), ExecutorEntry(EXECUTOR_Y, 0, <<>>)>>,
                  ZERO_ADDRESS, <<>>)

LegacyTx == TxData("snwap", TRUE, <<>>, EXECUTOR_Y, <<>>)

EmptyMultiTx == TxData("snwapMultiple", TRUE, <<>>, ZERO_ADDRESS, <<>>)

UnknownTx == TxData("unknown", TRUE, <<>>, ZERO_ADDRESS, <<>>)

BrokenTx == TxData("snwap", FALSE, <<>>, EXECUTOR_Y, <<>>)

PassResponses ==
    {RouteResponse("ok", "Success", TRUE, tx, 1, a, "ok") :
        tx \in {MultiTx, LegacyTx}, a \in AssumedOuts}
    \cup {RouteResponse("fail", "Success", TRUE, MultiTx, 1, usdc_threshold, "ok"),
          RouteResponse("ok", "Error", TRUE, MultiTx, 1, usdc_threshold, "ok"),
          RouteResponse("ok", "Success", FALSE, MultiTx, 1, usdc_threshold, "ok"),
          RouteResponse("ok", "Success", TRUE, UnknownTx, 1, usdc_threshold, "ok"),
          RouteResponse("ok", "Success", TRUE, EmptyMultiTx, 1, usdc_threshold, "ok"),
          RouteResponse("ok", "Success", TRUE, BrokenTx, 1, usdc_threshold, "ok"),
          RouteResponse("ok", "Success", TRUE, LegacyTx, 1, usdc_threshold, "down"),
          RouteResponse("ok", "Success", TRUE, MultiTx, 1, usdc_threshold, "wrong_chain")}

(***************************************************************************)
(* State.                                                                   *)
(*   whitelist, slippage_tolerance  the configuration of the pass           *)
(*   holding            chain state: the holding account's token balances   *)
(*   pc                 position of prepare_plan                            *)
(*   error              the exception that ended the pass ("" if none)      *)
(*   tokens .. total_min  locals of build_swap_parameters                   *)
(*   swap               the SwapBuildResult returned                        *)
(*   token_validations  results list of validate_swap_inputs, and whether   *)
(*                      it was returned                                     *)
(*   jumper_request     the amount sent to the bridge-quoting service       *)
(*                      (-1 before any request)                             *)
(*   bridge             the BridgeBuildResult returned                      *)
(*   contract_usdc      chain state: the destination contract's balance of  *)
(*                      the settlement asset                                *)
(*   route_response     the route service's answer request_swap_route is    *)
(*                      working on                                          *)
(*   route_out, dec_in, dec_out                                             *)
(*                      the result of request_swap_route, and the argument  *)
(*                      and result of the slippage step, when these are     *)
(*                      exercised alone                                     *)
(*   request_log        the requests sent to the two quoting services, in   *)
(*                      the order they were sent                            *)
(*   bridge_validation  the BridgeValidationResult returned                 *)
(*   relayer            the RelayerExecutor run: its mode, whether          *)
(*                      prepare_plan returned a plan, and what it did       *)
(*                      with the plan                                       *)
(*   passes             two passes run side by side on one holding account  *)
(*   registry           connection objects and the contract-handle cache    *)
(*   chain_read         a call of balance_of or allowance_of, when these    *)
(*                      are exercised alone                                 *)
(***************************************************************************)
VARIABLES whitelist, slippage_tolerance, holding, contract_usdc, pc, error,
          tokens, idx, balance, sushi_quote,
          input_tokens, executors, token_quotes, total_assumed, total_min,
          swap, token_validations, jumper_request, bridge,
          route_response, route_out, dec_in, dec_out,
          request_log, bridge_validation, relayer, passes, registry, chain_read

config_vars == <<whitelist, slippage_tolerance>>
swap_locals == <<tokens, idx, balance, sushi_quote,
                 input_tokens, executors, token_quotes, total_assumed, total_min>>
chain_vars == <<holding, contract_usdc>>
fn_vars == <<route_out, dec_in, dec_out>>
aux_vars == <<bridge_validation, relayer, passes, registry, chain_read>>
vars == <<whitelist, slippage_tolerance, holding, contract_usdc, pc, error,
          tokens, idx, balance, sushi_quote,
          input_tokens, executors, token_quotes, total_assumed, total_min,
          swap, token_validations, jumper_request, bridge,
          route_response, route_out, dec_in, dec_out,
          request_log, bridge_validation, relayer, passes, registry, chain_read>>

NoQuote == QuoteFailure("none", FALSE)

NoSwap == [returned |-> FALSE, input_tokens |-> <<>>, output_tokens |-> <<>>,
           executors |-> <<>>, min_total_usdc |-> 0, assumed_total_usdc |-> 0,
           token_quotes |-> <<>>]

NoValidations == [returned |-> FALSE, results |-> <<>>]

\* no answer of the bridge-quoting service is in hand
NoJumperPayload ==
    [transport |-> "none", missing |-> {}, to |-> ZERO_ADDRESS, data |-> HEX_0X,
     value |-> [neg |-> FALSE, digits |-> <<>>, readable |-> FALSE], rpc |-> "ok"]

NoBridge == [returned |-> FALSE, call_target |-> ZERO_ADDRESS, call_data |-> <<>>,
             native_value |-> 0, bridge_amount |-> 0, contract_usdc_balance |-> 0,
             min_total_usdc |-> 0, jumper_payload |-> NoJumperPayload]

NoRoute == RouteResponse("fail", "", FALSE, UnknownTx, 0, 0, "ok")

NoRouteResult == [called |-> FALSE, result |-> NoQuote]

NoDecimal == [a |-> <<0>>, t |-> Tolerance(1, 0)]

NoMinOut == [called |-> FALSE, ok |-> FALSE, value |-> <<0>>]

\* one request to the route-quoting service: the token's symbol and the amount
RouteRequest(symbol, amount) == [service |-> "route", symbol |-> symbol, amount |-> amount]

\* one request to the bridge-quoting service (no symbol: 0)
BridgeRequest(amount) == [service |-> "bridge", symbol |-> 0, amount |-> amount]

NoBridgeValidation == [returned |-> FALSE, call_target |-> ZERO_ADDRESS,
                       native_balance |-> [neg |-> FALSE, mag |-> <<0>>],
                       required_native |-> [neg |-> FALSE, mag |-> <<0>>],
                       has_sufficient_native |-> FALSE]

NoRelayer == [mode |-> "none", plan |-> FALSE, did |-> <<>>, gas |-> 0, tx_gas |-> 0]

NoPasses == <<>>

NoRegistry == [objects |-> {}, held |-> {}, cache |-> {}, serial |-> 0, freed |-> {}]

NoChainRead == [fn |-> "none", conn |-> "ok", token |-> ZERO_ADDRESS,
                called |-> FALSE, err |-> "", value |-> 0,
                through |-> 0, made_by |-> 0, hit |-> FALSE]

AuxIdle ==
    /\ request_log = <<>>
    /\ bridge_validation = NoBridgeValidation
    /\ relayer = NoRelayer
    /\ passes = NoPasses
    /\ registry = NoRegistry
    /\ chain_read = NoChainRead

FnIdle ==
    /\ route_out = NoRouteResult
    /\ dec_in = NoDecimal
    /\ dec_out = NoMinOut

SwapLocalsIdle ==
    /\ tokens = <<>>
    /\ idx = 1
    /\ balance = 0
    /\ sushi_quote = NoQuote
    /\ input_tokens = <<>>
    /\ executors = <<>>
    /\ token_quotes = <<>>
    /\ total_assumed = 0
    /\ total_min = 0

\* a pass before build_swap_parameters is entered
InitSwap ==
    /\ whitelist \in Whitelists
    /\ slippage_tolerance \in PassTolerances
    /\ holding \in [TokenAddresses -> 0 .. MaxBalance]
    /\ contract_usdc = 0
    /\ pc = "swap_start"
    /\ error = ""
    /\ SwapLocalsIdle
    /\ swap = NoSwap
    /\ token_validations = NoValidations
    /\ jumper_request = 0 - 1
    /\ bridge = NoBridge
    /\ route_response = NoRoute
    /\ FnIdle
    /\ AuxIdle

\* an exception leaves the pass: its locals and partial results are gone
Raise(err) ==
    /\ pc' = "failed"
    /\ error' = err
    /\ tokens' = <<>>
    /\ idx' = 1
    /\ balance' = 0
    /\ sushi_quote' = NoQuote
    /\ input_tokens' = <<>>
    /\ executors' = <<>>
    /\ token_quotes' = <<>>
    /\ total_assumed' = 0
    /\ total_min' = 0
    /\ swap' = NoSwap
    /\ token_validations' = NoValidations
    /\ bridge' = NoBridge
    /\ route_response' = NoRoute

(***************************************************************************)
(* The chain moves on its own: another party changes a holding balance      *)
(* while the pass is between two reads of it.                               *)
(***************************************************************************)
ReadingPhases == {"swap_loop", "swap_quote", "swap_filter", "validate_executors",
                  "validate_swap", "validate_token"}

ExternalTransfer ==
    /\ pc \in ReadingPhases
    /\ \E a \in TokenAddresses, v \in 0 .. MaxBalance :
          /\ v # holding[a]
          /\ holding' = [holding EXCEPT ![a] = v]
    /\ UNCHANGED <<config_vars, contract_usdc, pc, error, swap_locals, swap,
                   token_validations, jumper_request, bridge, route_response, fn_vars, request_log, aux_vars>>

(***************************************************************************)
(* build_swap_parameters.                                                   *)
(***************************************************************************)
\* connection check, sorted whitelist, "No whitelisted tokens configured"
SwapStart ==
    /\ pc = "swap_start"
    /\ \E conn \in Connections :
          IF ensure_web3_connected(conn, TRUE) # ""
          THEN Raise(ensure_web3_connected(conn, TRUE))
          ELSE IF _iter_whitelisted_tokens(whitelist) = <<>>
          THEN Raise("ValueError: no whitelisted tokens")
          ELSE /\ tokens' = _iter_whitelisted_tokens(whitelist)
               /\ pc' = "swap_loop"
               /\ UNCHANGED <<error, idx, balance, sushi_quote, input_tokens, executors,
                              token_quotes, total_assumed, total_min, swap,
                              token_validations, bridge, route_response>>
    /\ UNCHANGED <<config_vars, chain_vars, jumper_request, fn_vars, request_log, aux_vars>>

\* for token in tokens: balance = balance_of(...); zero balance -> continue
SwapReadBalance ==
    /\ pc = "swap_loop"
    /\ idx <= Len(tokens)
    /\ \E conn \in Connections :
          IF ensure_web3_connected(conn, FALSE) # ""
          THEN Raise(ensure_web3_connected(conn, FALSE))
          ELSE /\ IF holding[tokens[idx].address] = 0
                  THEN idx' = idx + 1 /\ UNCHANGED <<pc, balance>>
                  ELSE /\ balance' = holding[tokens[idx].address]
                       /\ pc' = "swap_quote"
                       /\ UNCHANGED idx
               /\ UNCHANGED <<error, tokens, sushi_quote, input_tokens, executors,
                              token_quotes, total_assumed, total_min, swap,
                              token_validations, bridge, route_response>>
    /\ UNCHANGED <<config_vars, chain_vars, jumper_request, fn_vars, request_log, aux_vars>>

\* sushi_quote = quote_fn(...): the result or the exception raised
SwapQuoteFrom(responses) ==
    /\ pc = "swap_quote"
    /\ \E r \in responses :
          /\ route_response' = r
          /\ sushi_quote' = request_swap_route(r)
    /\ request_log' = Append(request_log, RouteRequest(tokens[idx].symbol, balance))
    /\ pc' = "swap_filter"
    /\ UNCHANGED <<config_vars, chain_vars, error, tokens, idx, balance, input_tokens,
                   executors, token_quotes, total_assumed, total_min, swap,
                   token_validations, jumper_request, bridge, fn_vars, aux_vars>>

\* the quote step with every answer the route service gives during a pass
SwapQuote == SwapQuoteFrom(PassResponses)

\* the native value the route payload in hand carries for the executor taken
payload_value(tx) ==
    IF multiple_decodes(tx) /\ Len(tx.executors) >= 1
    THEN _decode_snwap_multiple(tx).executors[1].value
    ELSE 0

\* AppendToken passing the payload's native value on to the executor call
AppendToken_payload_value(m) ==
    /\ input_tokens' = Append(input_tokens, <<tokens[idx].address, balance, sushi_quote.executor>>)
    /\ executors' = Append(executors, <<sushi_quote.executor, payload_value(route_response.tx),
                                        sushi_quote.executor_data>>)
    /\ total_assumed' = total_assumed + sushi_quote.assumed_amount_out
    /\ total_min' = total_min + m
    /\ token_quotes' = Append(token_quotes,
          [symbol |-> tokens[idx].symbol,
           token_address |-> tokens[idx].address,
           balance |-> balance,
           assumed_usdc_out |-> sushi_quote.assumed_amount_out,
           min_usdc_out |-> m,
           executor |-> sushi_quote.executor,
           executor_data |-> sushi_quote.executor_data])

\* AppendToken with the executor call put in front of the list
AppendToken_prepend(m) ==
    /\ input_tokens' = Append(input_tokens, <<tokens[idx].address, balance, sushi_quote.executor>>)
    /\ executors' = <<<<sushi_quote.executor, 0, sushi_quote.executor_data>>>> \o executors
    /\ total_assumed' = total_assumed + sushi_quote.assumed_amount_out
    /\ total_min' = total_min + m
    /\ token_quotes' = Append(token_quotes,
          [symbol |-> tokens[idx].symbol,
           token_address |-> tokens[idx].address,
           balance |-> balance,
           assumed_usdc_out |-> sushi_quote.assumed_amount_out,
           min_usdc_out |-> m,
           executor |-> sushi_quote.executor,
           executor_data |-> sushi_quote.executor_data])

\* the accumulators after the token at idx is appended with minimum m
AppendToken(m) ==
    /\ input_tokens' = Append(input_tokens, <<tokens[idx].address, balance, sushi_quote.executor>>)
    /\ executors' = Append(executors, <<sushi_quote.executor, 0, sushi_quote.executor_data>>)
    /\ total_assumed' = total_assumed + sushi_quote.assumed_amount_out
    /\ total_min' = total_min + m
    /\ token_quotes' = Append(token_quotes,
          [symbol |-> tokens[idx].symbol,
           token_address |-> tokens[idx].address,
           balance |-> balance,
           assumed_usdc_out |-> sushi_quote.assumed_amount_out,
           min_usdc_out |-> m,
           executor |-> sushi_quote.executor,
           executor_data |-> sushi_quote.executor_data])

\* continue: the loop goes on with the next token
NextToken ==
    /\ idx' = idx + 1
    /\ pc' = "swap_loop"
    /\ balance' = 0
    /\ sushi_quote' = NoQuote
    /\ route_response' = NoRoute
    /\ UNCHANGED <<error, tokens, swap, token_validations, bridge>>

\* the token at idx is left out
SkipToken ==
    /\ NextToken
    /\ UNCHANGED <<input_tokens, executors, token_quotes, total_assumed, total_min>>

\* QuoteFailed asking for the same token's quote again
QuoteFailed_retry ==
    /\ pc' = "swap_quote"
    /\ sushi_quote' = NoQuote
    /\ route_response' = NoRoute
    /\ UNCHANGED <<error, tokens, idx, balance, input_tokens, executors, token_quotes,
                   total_assumed, total_min, swap, token_validations, bridge>>

\* QuoteFailed letting the exception through
QuoteFailed_propagate == Raise(sushi_quote.err)

\* what the except clause around quote_fn does with the exception
QuoteFailed == SkipToken

\* AboveThreshold with a strict comparison
AboveThreshold_strict(q) == q.assumed_amount_out > usdc_threshold

\* the quote's assumed output passes the dust threshold
AboveThreshold(q) == ~(q.assumed_amount_out < usdc_threshold)

\* except -> continue; threshold -> continue; min_out; append and accumulate
SwapFilter ==
    /\ pc = "swap_filter"
    /\ IF ~sushi_quote.ok THEN QuoteFailed
       ELSE IF ~AboveThreshold(sushi_quote) THEN SkipToken
       ELSE LET m == min_out_of(Digits(sushi_quote.assumed_amount_out), slippage_tolerance)
            IN IF ~m.ok
               THEN Raise("InvalidOperation")
               ELSE AppendToken(IntOf(m.value)) /\ NextToken
    /\ UNCHANGED <<config_vars, chain_vars, jumper_request, fn_vars, request_log, aux_vars>>

\* SwapBuildResult with the assumed total as the output minimum
SwapBuildResult_assumed ==
    [returned |-> TRUE,
     input_tokens |-> input_tokens,
     output_tokens |-> <<<<usdc_address, revenue_bridger_address, total_assumed>>>>,
     executors |-> executors,
     min_total_usdc |-> total_min,
     assumed_total_usdc |-> total_assumed,
     token_quotes |-> token_quotes]

\* the SwapBuildResult built from the accumulators
SwapBuildResult ==
    [returned |-> TRUE,
     input_tokens |-> input_tokens,
     output_tokens |-> <<<<usdc_address, revenue_bridger_address, total_min>>>>,
     executors |-> executors,
     min_total_usdc |-> total_min,
     assumed_total_usdc |-> total_assumed,
     token_quotes |-> token_quotes]

\* NoEligibleTokens never raised
NoEligibleTokens_never == FALSE

\* build_swap_parameters ends in "No eligible tokens"
NoEligibleTokens == input_tokens = <<>>

\* after the loop: "No eligible tokens" or the result
SwapFinish ==
    /\ pc = "swap_loop"
    /\ idx > Len(tokens)
    /\ IF NoEligibleTokens
       THEN Raise("ValueError: no eligible tokens")
       ELSE /\ swap' = SwapBuildResult
            /\ pc' = "validate_executors"
            /\ UNCHANGED <<error, swap_locals, token_validations, bridge, route_response>>
    /\ UNCHANGED <<config_vars, chain_vars, jumper_request, fn_vars, request_log, aux_vars>>

NextSwap ==
    \/ ExternalTransfer
    \/ SwapStart
    \/ SwapReadBalance
    \/ SwapQuote
    \/ SwapFilter
    \/ SwapFinish

\* build_swap_parameters alone, against a chain that moves on its own
SpecSwap == InitSwap /\ [][NextSwap]_vars

(***************************************************************************)
(* Properties of build_swap_parameters (checked under SpecSwap).            *)
(***************************************************************************)
\* a step of the pass (the chain's own steps change holding, the pass never does)
PassStep == holding' = holding

RECURSIVE SumMinOut(_)
SumMinOut(qs) == IF qs = <<>> THEN 0 ELSE qs[1].min_usdc_out + SumMinOut(Tail(qs))

AccumulatorsUnchanged ==
    /\ input_tokens' = input_tokens
    /\ executors' = executors
    /\ token_quotes' = token_quotes
    /\ total_assumed' = total_assumed
    /\ total_min' = total_min

\* C1: every returned SwapBuildResult has input_tokens, executors and
\* token_quotes of one length, and at every index the transferTo of the input
\* token is the executor address of the executor call, both being the executor
\* of the quote recorded for the token at that index.
C1_IndexAligned ==
    swap.returned =>
        /\ Len(swap.input_tokens) = Len(swap.executors)
        /\ Len(swap.input_tokens) = Len(swap.token_quotes)
        /\ \A i \in 1 .. Len(swap.input_tokens) :
              /\ swap.input_tokens[i][3] = swap.executors[i][1]
              /\ swap.token_quotes[i].executor = swap.input_tokens[i][3]
              /\ swap.token_quotes[i].token_address = swap.input_tokens[i][1]
              /\ swap.token_quotes[i].executor_data = swap.executors[i][3]

C1_Witness ==
    /\ swap.returned
    /\ Len(swap.input_tokens) = 2
    /\ swap.executors[1][1] # swap.executors[2][1]

\* C2: every returned SwapBuildResult has exactly one output token, (settlement
\* asset, destination contract, minAmountOut), whose minAmountOut is
\* min_total_usdc and is the sum of min_usdc_out over the tokens included in
\* input_tokens, one quote per included token and none for a skipped one.
C2_OutputIsSumOfMinimums ==
    swap.returned =>
        /\ Len(swap.output_tokens) = 1
        /\ swap.output_tokens[1][1] = usdc_address
        /\ swap.output_tokens[1][2] = revenue_bridger_address
        /\ swap.output_tokens[1][3] = swap.min_total_usdc
        /\ swap.output_tokens[1][3] = SumMinOut(swap.token_quotes)
        /\ Len(swap.token_quotes) = Len(swap.input_tokens)
        /\ \A i \in 1 .. Len(swap.input_tokens) :
              swap.token_quotes[i].token_address = swap.input_tokens[i][1]

C2_Witness ==
    /\ swap.returned
    /\ Len(swap.token_quotes) = 2
    /\ swap.token_quotes[1].min_usdc_out # swap.token_quotes[2].min_usdc_out
    /\ swap.min_total_usdc < swap.assumed_total_usdc

\* C5: when the route quote of a token failed, the pass leaves that token out
\* and goes on with the next one: the arrays and totals are untouched, no error
\* is raised, and the state is the one a zero balance of that token leaves
\* (loop head, next index, no quote in hand).
C5_QuoteFailureSkipsToken ==
    [][(pc = "swap_filter" /\ ~sushi_quote.ok /\ PassStep) =>
          /\ pc' = "swap_loop"
          /\ idx' = idx + 1
          /\ error' = ""
          /\ AccumulatorsUnchanged
          /\ tokens' = tokens
          /\ balance' = 0
          /\ sushi_quote' = NoQuote
          /\ swap' = swap]_vars

C5_Witness ==
    /\ pc = "swap_filter"
    /\ sushi_quote.err = "ConnectionError: fetch"
    /\ idx < Len(tokens)
    /\ Len(input_tokens) = idx - 1

\* C6: when every whitelisted token was skipped the build raises "no eligible
\* tokens" and returns no result; an empty whitelist raises "no whitelisted
\* tokens" instead, at the start, before any balance is read or quote requested.
C6_NoEligibleTokens ==
    /\ [][(pc = "swap_loop" /\ idx > Len(tokens) /\ input_tokens = <<>> /\ PassStep) =>
             /\ pc' = "failed"
             /\ error' = "ValueError: no eligible tokens"
             /\ ~swap'.returned]_vars
    /\ [][(error' = "ValueError: no whitelisted tokens" /\ error = "") =>
             /\ pc = "swap_start"
             /\ whitelist = <<>>]_vars
    /\ [][(pc = "swap_start" /\ whitelist = <<>> /\ PassStep) =>
             /\ pc' = "failed"
             /\ error' \in {"ValueError: no whitelisted tokens",
                            "ConnectionError: rpc", "ValueError: chain id"}]_vars
    /\ [](error = "ValueError: no eligible tokens" => whitelist # <<>>)

C6_Witness ==
    /\ error = "ValueError: no eligible tokens"
    /\ Len(whitelist) = 2
    /\ ~swap.returned

\* C7: a whitelisted token is appended to input_tokens exactly when its balance
\* read in this pass is non-zero, its route quote succeeded and the quote's
\* assumed output is not below the dust threshold (equal is enough); a non-zero
\* balance always leads to a quote request; the result carries these arrays.
C7_IncludedIffEligible ==
    /\ [][PassStep =>
             /\ (Len(input_tokens') > Len(input_tokens)) =>
                   /\ pc = "swap_filter"
                   /\ balance # 0
                   /\ sushi_quote.ok
                   /\ sushi_quote.assumed_amount_out >= usdc_threshold
                   /\ input_tokens' = Append(input_tokens,
                          <<tokens[idx].address, balance, sushi_quote.executor>>)
                   /\ idx' = idx + 1
             /\ (pc = "swap_filter" /\ sushi_quote.ok
                    /\ sushi_quote.assumed_amount_out >= usdc_threshold) =>
                   \/ Len(input_tokens') = Len(input_tokens) + 1
                   \/ error' = "InvalidOperation"
             /\ (pc = "swap_loop" /\ idx <= Len(tokens)
                    /\ holding[tokens[idx].address] # 0 /\ error' = "") =>
                   /\ pc' = "swap_quote"
                   /\ idx' = idx
                   /\ balance' = holding[tokens[idx].address]
             /\ (pc = "swap_loop" /\ idx <= Len(tokens)
                    /\ holding[tokens[idx].address] = 0 /\ error' = "") =>
                   /\ pc' = "swap_loop"
                   /\ idx' = idx + 1]_vars
    /\ [](swap.returned => swap.input_tokens = input_tokens /\ idx = Len(tokens) + 1)

C7_Witness ==
    /\ swap.returned
    /\ Len(tokens) > Len(swap.input_tokens)
    /\ \E i \in 1 .. Len(swap.token_quotes) :
          swap.token_quotes[i].assumed_usdc_out = usdc_threshold

\* the payload decodes under neither shape
NeitherShape(tx) ==
    /\ ~(tx.fn = "snwapMultiple" /\ tx.intact)
    /\ ~(tx.fn = "snwap" /\ tx.intact)

\* C9: for a route payload that decodes under neither shape request_swap_route
\* raises a decode error and returns no quote; build_swap_parameters skips the
\* token and goes on, and a decode error is never the error the build ends in.
C9_DecodeErrorSkipsToken ==
    /\ [](( /\ pc = "swap_filter"
            /\ route_response.transport = "ok"
            /\ route_response.status = "Success"
            /\ route_response.has_tx
            /\ NeitherShape(route_response.tx)) =>
               /\ ~sushi_quote.ok
               /\ sushi_quote.err = "ValueError: decode")
    /\ [][(pc = "swap_filter" /\ sushi_quote.err = "ValueError: decode" /\ PassStep) =>
             /\ pc' = "swap_loop"
             /\ error' = ""
             /\ idx' = idx + 1
             /\ AccumulatorsUnchanged]_vars
    /\ [](error # "ValueError: decode")

C9_Witness ==
    /\ pc = "swap_filter"
    /\ NeitherShape(route_response.tx)
    /\ sushi_quote.err = "ValueError: decode"
    /\ Len(input_tokens) = 1

(***************************************************************************)
(* request_swap_route exercised alone, on every answer the route service    *)
(* can give within the bounds.                                              *)
(***************************************************************************)
\* longest executor array of a multi-execution payload
MaxExecutors == 2

ExecutorPayloads == {<<>>, <<171>>}

ExecutorEntries ==
    {ExecutorEntry(a, 0, data) : a \in {EXECUTOR_X, EXECUTOR_Y}, data \in ExecutorPayloads}

\* the calldata the service can return: either shape, intact or not, or another call
RoutePayloads ==
    {TxData("snwapMultiple", intact, execs, ZERO_ADDRESS, <<>>) :
        intact \in BOOLEAN, execs \in SeqsUpTo(ExecutorEntries, MaxExecutors)}
    \cup {TxData("snwap", intact, <<>>, a, data) :
             intact \in BOOLEAN, a \in {EXECUTOR_X, EXECUTOR_Y}, data \in ExecutorPayloads}
    \cup {UnknownTx}

RouteResponses ==
    {RouteResponse("ok", "Success", TRUE, tx, 1, usdc_threshold, rpc) :
        tx \in RoutePayloads, rpc \in Connections}
    \cup {RouteResponse("fail", "Success", TRUE, MultiTx, 1, usdc_threshold, "ok"),
          RouteResponse("ok", "Error", TRUE, MultiTx, 1, usdc_threshold, "ok"),
          RouteResponse("ok", "Success", FALSE, MultiTx, 1, usdc_threshold, "ok")}

\* no pass is running: every variable of prepare_plan holds its idle value
PlanIdle ==
    /\ whitelist = <<>>
    /\ slippage_tolerance = Tolerance(1, 0)
    /\ holding = [a \in TokenAddresses |-> 0]
    /\ contract_usdc = 0
    /\ error = ""
    /\ SwapLocalsIdle
    /\ swap = NoSwap
    /\ token_validations = NoValidations
    /\ jumper_request = 0 - 1
    /\ bridge = NoBridge

plan_vars == <<config_vars, chain_vars, error, swap_locals, swap, token_validations,
               jumper_request, bridge>>

InitRoute ==
    /\ PlanIdle
    /\ pc = "route"
    /\ route_response \in RouteResponses
    /\ FnIdle
    /\ AuxIdle

\* one call of request_swap_route on the answer in route_response
RequestSwapRoute ==
    /\ pc = "route"
    /\ route_out' = [called |-> TRUE, result |-> request_swap_route(route_response)]
    /\ pc' = "route_done"
    /\ UNCHANGED <<plan_vars, route_response, dec_in, dec_out, request_log, aux_vars>>

NextRoute == RequestSwapRoute

SpecRoute == InitRoute /\ [][NextRoute]_vars

(***************************************************************************)
(* Properties of request_swap_route (checked under SpecRoute).              *)
(***************************************************************************)
\* the answer got as far as the decode step
ReachedDecode(r) == r.transport = "ok" /\ r.status = "Success" /\ r.has_tx

\* the multi-execution attempt succeeds: it decodes and has a first executor
MultiAttemptSucceeds(tx) == multiple_decodes(tx) /\ Len(tx.executors) >= 1

\* C8: request_swap_route tries the multi-execution shape first.  When that
\* shape decodes with at least one executor, the legacy decoder is not
\* consulted and a returned result carries exactly the first executor entry's
\* address and payload.  The legacy decoder is consulted exactly when the
\* multi-execution attempt fails (an empty executor array included), and a
\* result returned then carries the legacy tuple's executor and executorData.
C8_MultiFirstThenLegacy ==
    (route_out.called /\ ReachedDecode(route_response)) =>
        LET tx == route_response.tx
            res == route_out.result
        IN /\ res.legacy <=> ~MultiAttemptSucceeds(tx)
           /\ res.ok <=> /\ MultiAttemptSucceeds(tx) \/ snwap_decodes(tx)
                         /\ route_response.rpc = "ok"
           /\ (res.ok /\ MultiAttemptSucceeds(tx)) =>
                 /\ res.shape = "multi"
                 /\ res.executor = to_checksum_address(tx.executors[1].executor)
                 /\ res.executor_data = tx.executors[1].data
           /\ (res.ok /\ ~MultiAttemptSucceeds(tx)) =>
                 /\ res.shape = "legacy"
                 /\ res.executor = to_checksum_address(tx.executor)
                 /\ res.executor_data = tx.executorData

\* a two-executor payload whose entries differ was decoded to its first entry
C8_Witness ==
    /\ route_out.called
    /\ route_out.result.ok
    /\ route_out.result.shape = "multi"
    /\ Len(route_response.tx.executors) = 2
    /\ route_response.tx.executors[1] = ExecutorEntry(EXECUTOR_X, 0, <<171>>)
    /\ route_response.tx.executors[2] = ExecutorEntry(EXECUTOR_Y, 0, <<>>)
    /\ route_out.result.executor = Address(3, "checksum")
    /\ route_out.result.executor_data = <<171>>

(***************************************************************************)
(* The slippage step of build_swap_parameters exercised alone.              *)
(***************************************************************************)
\* largest assumed output enumerated one by one
MaxAssumed == 24

\* a one followed by k zeros
PowTen(k) == <<1>> \o Zeros(k)

\* assumed outputs: every small amount, the documented example, and amounts
\* around the number of digits the decimal context holds
AssumedAmounts ==
    {Digits(n) : n \in 0 .. MaxAssumed}
    \cup {Digits(2000000)}
    \cup {PowTen(k) : k \in (DecimalPrec - 3) .. (DecimalPrec + 1)}
    \cup {AddOne(PowTen(k)) : k \in (DecimalPrec - 3) .. (DecimalPrec + 1)}

\* slippage tolerances as Decimal(str(t)) reads them: 0.98, 0.995, 0.5, 0.1, 1.0
SlippageMultipliers ==
    {Tolerance(98, 2), Tolerance(995, 3), Tolerance(5, 1), Tolerance(1, 1), Tolerance(10, 1)}

InitMinOut ==
    /\ PlanIdle
    /\ pc = "min_out"
    /\ route_response = NoRoute
    /\ route_out = NoRouteResult
    /\ dec_in \in [a : AssumedAmounts, t : SlippageMultipliers]
    /\ dec_out = NoMinOut
    /\ AuxIdle

\* min_out = int((Decimal(assumed_amount_out) * slippage_multiplier).quantize(...))
ComputeMinOut ==
    /\ pc = "min_out"
    /\ dec_out' = [called |-> TRUE,
                   ok |-> min_out_of(dec_in.a, dec_in.t).ok,
                   value |-> min_out_of(dec_in.a, dec_in.t).value]
    /\ pc' = "min_out_done"
    /\ UNCHANGED <<plan_vars, route_response, route_out, dec_in, request_log, aux_vars>>

NextMinOut == ComputeMinOut

SpecMinOut == InitMinOut /\ [][NextMinOut]_vars

(***************************************************************************)
(* Properties of the slippage step (checked under SpecMinOut).              *)
(***************************************************************************)
\* C3: for every tolerance t in (0,1] and every assumed output a >= 0 the
\* slippage step yields minOut = floor(a * t), hence 0 <= minOut <= a.
C3_MinOutIsFloor ==
    dec_out.called =>
        /\ dec_out.ok
        /\ dec_out.value = ExactFloor(dec_in.a, dec_in.t)
        /\ DigitsLeq(dec_out.value, dec_in.a)

(***************************************************************************)
(* The bridge-quoting service and get_jumper_transaction.                   *)
(*   transport  "ok" or "fail" (requests.RequestException)                  *)
(*   missing    the keys absent from the answer: "transactionRequest", or   *)
(*              "to", "data", "value" of the transaction request            *)
(*   to, data, value   the fields of the transaction request; value is a    *)
(*              hex numeral: a sign, hex digits, and whether int(.., 16)    *)
(*              can read it                                                 *)
(*   rpc        what the connection check of get_jumper_transaction finds   *)
(***************************************************************************)
HexValue(neg, digits, readable) == [neg |-> neg, digits |-> digits, readable |-> readable]

BridgeResponse(transport, missing, to, data, value, rpc) ==
    [transport |-> transport, missing |-> missing, to |-> to, data |-> data,
     value |-> value, rpc |-> rpc]

RECURSIVE hex_number(_)
hex_number(d) == IF d = <<>> THEN 0 ELSE 16 * hex_number(SubSeq(d, 1, Len(d) - 1)) + d[Len(d)]

\* int(text, 16): raises ValueError on text that is no hex numeral
int16_ok(v) == v.readable /\ v.digits # <<>>

int16(v) == IF v.neg THEN 0 - hex_number(v.digits) ELSE hex_number(v.digits)

\* get_jumper_transaction and _decode_transaction_call: the error raised, "" if none
get_jumper_transaction(r) ==
    IF r.transport # "ok" THEN "ConnectionError: fetch"
    ELSE IF "transactionRequest" \in r.missing THEN "KeyError: transactionRequest"
    ELSE IF ensure_web3_connected(r.rpc, TRUE) # "" THEN ensure_web3_connected(r.rpc, TRUE)
    ELSE IF "to" \in r.missing THEN "KeyError: to"
    ELSE IF ~is_address(r.to) THEN "ValueError: address"
    ELSE IF "data" \in r.missing THEN "KeyError: data"
    ELSE ""

\* envelope_error with a missing value read as zero
envelope_error_default_value(r) ==
    IF ~hex_ok(r.data) THEN "ValueError: hex"
    ELSE IF "value" \in r.missing THEN ""
    ELSE IF ~int16_ok(r.value) THEN "ValueError: int"
    ELSE ""

\* reading tx["to"], tx["data"], tx["value"] in build_bridge_call: the error raised
envelope_error(r) ==
    IF ~hex_ok(r.data) THEN "ValueError: hex"
    ELSE IF "value" \in r.missing THEN "KeyError: value"
    ELSE IF ~int16_ok(r.value) THEN "ValueError: int"
    ELSE ""

\* bridge_amount of build_bridge_call with the destination's residue left out
bridge_amount_no_residue(contract_balance, min_total_usdc) == min_total_usdc

\* bridge_amount = contract_balance + min_total_usdc
bridge_amount_of(contract_balance, min_total_usdc) == contract_balance + min_total_usdc

\* the BridgeBuildResult returned for the answer r
BridgeBuildResult(r, frame) ==
    [returned |-> TRUE,
     call_target |-> to_checksum_address(r.to),
     call_data |-> hex_to_bytes(r.data),
     native_value |-> int16(r.value),
     bridge_amount |-> frame.bridge_amount,
     contract_usdc_balance |-> frame.contract_usdc_balance,
     min_total_usdc |-> frame.min_total_usdc,
     jumper_payload |-> r]

OkValue == HexValue(FALSE, <<1, 0>>, TRUE)

OkData == [pfx |-> TRUE, digits |-> <<10, 11>>]

\* answers of the bridge-quoting service drawn during a pass
PassBridgeResponses ==
    {BridgeResponse("ok", {}, to, OkData, v, "ok") :
        to \in {lifi_diamond_address, lower(lifi_diamond_address), ZERO_ADDRESS, EXECUTOR_X},
        v \in {OkValue, HexValue(FALSE, <<0>>, TRUE), HexValue(TRUE, <<1>>, TRUE)}}
    \cup {BridgeResponse("fail", {}, lifi_diamond_address, OkData, OkValue, "ok"),
          BridgeResponse("ok", {"transactionRequest"}, lifi_diamond_address, OkData, OkValue, "ok"),
          BridgeResponse("ok", {"to"}, lifi_diamond_address, OkData, OkValue, "ok"),
          BridgeResponse("ok", {"data"}, lifi_diamond_address, OkData, OkValue, "ok"),
          BridgeResponse("ok", {"value"}, lifi_diamond_address, OkData, OkValue, "ok"),
          BridgeResponse("ok", {}, Malformed, OkData, OkValue, "ok"),
          BridgeResponse("ok", {}, lifi_diamond_address, [pfx |-> TRUE, digits |-> <<10>>], OkValue, "ok"),
          BridgeResponse("ok", {}, lifi_diamond_address, OkData, HexValue(FALSE, <<1>>, FALSE), "ok"),
          BridgeResponse("ok", {}, lifi_diamond_address, OkData, OkValue, "down"),
          BridgeResponse("ok", {}, lifi_diamond_address, OkData, OkValue, "wrong_chain")}

(***************************************************************************)
(* build_bridge_call.  While the call runs, bridge holds its frame: the     *)
(* locals contract_balance and bridge_amount and the argument               *)
(* min_total_usdc, with returned FALSE until the result is returned.        *)
(***************************************************************************)
\* balances of the settlement asset the destination contract is drawn with
UsdcResidues == (0 .. MaxResidue) \cup {500}

\* assumed outputs and tolerances of the swap result a bridge build starts from
BridgeAssumedOuts == {usdc_threshold, usdc_threshold + 1, 2000000}

BridgeTolerances == PassTolerances \cup {Tolerance(1, 1)}

\* the SwapBuildResult of a one-token pass with assumed output a and minimum m
SwapResultOf(a, m) ==
    [returned |-> TRUE,
     input_tokens |-> <<<<TOKEN_A, 1, to_checksum_address(EXECUTOR_X)>>>>,
     output_tokens |-> <<<<usdc_address, revenue_bridger_address, m>>>>,
     executors |-> <<<<to_checksum_address(EXECUTOR_X), 0, <<171>>>>>>,
     min_total_usdc |-> m,
     assumed_total_usdc |-> a,
     token_quotes |-> <<[symbol |-> 1,
                         token_address |-> TOKEN_A,
                         balance |-> 1,
                         assumed_usdc_out |-> a,
                         min_usdc_out |-> m,
                         executor |-> to_checksum_address(EXECUTOR_X),
                         executor_data |-> <<171>>]>>]

\* prepare_plan about to call build_bridge_call with a swap result in hand
InitBridge ==
    /\ whitelist = <<TokenConfig(1, TOKEN_A)>>
    /\ holding = [a \in TokenAddresses |-> IF a = TOKEN_A THEN 1 ELSE 0]
    /\ contract_usdc \in UsdcResidues
    /\ pc = "bridge"
    /\ error = ""
    /\ SwapLocalsIdle
    /\ \E a \in BridgeAssumedOuts, t \in BridgeTolerances :
          /\ slippage_tolerance = t
          /\ swap = SwapResultOf(a, IntOf(min_out_of(Digits(a), t).value))
    /\ token_validations = NoValidations
    /\ jumper_request = 0 - 1
    /\ bridge = NoBridge
    /\ route_response = NoRoute
    /\ FnIdle
    /\ AuxIdle

\* another party moves the settlement asset at the destination contract
ExternalDeposit ==
    /\ pc \in {"bridge", "bridge_quote"}
    /\ \E v \in UsdcResidues :
          /\ v # contract_usdc
          /\ contract_usdc' = v
    /\ UNCHANGED <<config_vars, holding, pc, error, swap_locals, swap, token_validations,
                   jumper_request, bridge, route_response, fn_vars, request_log, aux_vars>>

\* ensure_web3_connected; contract_balance = balance_of(...); bridge_amount = ...
BridgeReadBalance ==
    /\ pc = "bridge"
    /\ \E conn \in Connections :
          IF ensure_web3_connected(conn, TRUE) # ""
          THEN Raise(ensure_web3_connected(conn, TRUE))
          ELSE /\ bridge' = [NoBridge EXCEPT
                                !.contract_usdc_balance = contract_usdc,
                                !.min_total_usdc = swap.min_total_usdc,
                                !.bridge_amount = bridge_amount_of(contract_usdc, swap.min_total_usdc)]
               /\ pc' = "bridge_quote"
               /\ UNCHANGED <<error, swap_locals, swap, token_validations, route_response>>
    /\ UNCHANGED <<config_vars, chain_vars, jumper_request, fn_vars, request_log, aux_vars>>

\* jumper_fn(amount=bridge_amount, ...); tx fields; return BridgeBuildResult
BridgeQuoteFrom(responses) ==
    /\ pc = "bridge_quote"
    /\ jumper_request' = bridge.bridge_amount
    /\ request_log' = Append(request_log, BridgeRequest(bridge.bridge_amount))
    /\ \E r \in responses :
          IF get_jumper_transaction(r) # "" THEN Raise(get_jumper_transaction(r))
          ELSE IF envelope_error(r) # "" THEN Raise(envelope_error(r))
          ELSE /\ bridge' = BridgeBuildResult(r, bridge)
               /\ pc' = "bridge_built"
               /\ UNCHANGED <<error, swap_locals, swap, token_validations, route_response>>
    /\ UNCHANGED <<config_vars, chain_vars, fn_vars, aux_vars>>

\* the quote step with every answer the bridge service gives during a pass
BridgeQuote == BridgeQuoteFrom(PassBridgeResponses)

NextBridge ==
    \/ ExternalDeposit
    \/ BridgeReadBalance
    \/ BridgeQuote

\* build_bridge_call alone, against a chain that moves on its own
SpecBridge == InitBridge /\ [][NextBridge]_vars

(***************************************************************************)
(* Properties of build_bridge_call (checked under SpecBridge).              *)
(***************************************************************************)
\* C4: every BridgeBuildResult returned has bridge_amount equal to
\* contract_usdc_balance + min_total_usdc, where contract_usdc_balance is the
\* destination contract's settlement-asset balance as read in that call and
\* min_total_usdc is the swap result's minimum, and the bridge quote was
\* requested with that same bridge_amount.
C4_BridgeAmountIsBalancePlusMinimum ==
    /\ [][(pc = "bridge" /\ pc' = "bridge_quote") =>
             bridge'.contract_usdc_balance = contract_usdc]_vars
    /\ [][(pc = "bridge_quote" /\ pc' = "bridge_built") =>
             /\ bridge'.contract_usdc_balance = bridge.contract_usdc_balance
             /\ jumper_request' = bridge'.bridge_amount]_vars
    /\ [](bridge.returned =>
             /\ bridge.min_total_usdc = swap.min_total_usdc
             /\ bridge.min_total_usdc >= 0
             /\ bridge.bridge_amount = bridge.contract_usdc_balance + bridge.min_total_usdc
             /\ jumper_request = bridge.bridge_amount)

\* balance 500 and minimum 1,960,000 were bridged as 1,960,500
C4_Witness ==
    /\ bridge.returned
    /\ bridge.contract_usdc_balance = 500
    /\ bridge.min_total_usdc = 1960000
    /\ bridge.bridge_amount = 1960500
    /\ jumper_request = 1960500

(***************************************************************************)
(* validate_swap_inputs.  The loop over input_tokens keeps its position in  *)
(* idx and its results list in token_validations.results.                   *)
(***************************************************************************)
\* symbol_map.get(checksum_address.lower(), "UNKNOWN"): the dict comprehension
\* keeps the last whitelist entry of an address; 0 stands for "UNKNOWN"
RECURSIVE symbol_of(_, _)
symbol_of(list, address) ==
    IF list = <<>> THEN 0
    ELSE IF lower(list[Len(list)].address) = lower(address) THEN list[Len(list)].symbol
    ELSE symbol_of(SubSeq(list, 1, Len(list) - 1), address)

\* TokenValidationResult with the allowance passed as the required amount
TokenValidationResult_swapped(token_address, symbol, required_amount, bal, allowance) ==
    [token_address |-> token_address, symbol |-> symbol,
     required_amount |-> allowance, balance |-> bal, allowance |-> required_amount]

TokenValidationResult(token_address, symbol, required_amount, bal, allowance) ==
    [token_address |-> token_address, symbol |-> symbol,
     required_amount |-> required_amount, balance |-> bal, allowance |-> allowance]

\* TokenValidationResult.has_allowance
has_allowance(r) == r.allowance >= r.required_amount

\* BalanceCovers with the comparison left out
BalanceCovers_off(bal, amount_in) == TRUE

\* the negation of "if balance < amount_in: raise"
BalanceCovers(bal, amount_in) == ~(bal < amount_in)

\* the SwapBuildResult of a pass that included every token of list, the
\* i-th with balance amounts[i], each quoted at the dust threshold
SwapResultFor(list, amounts) ==
    [returned |-> TRUE,
     input_tokens |-> [i \in 1 .. Len(list) |->
                          <<list[i].address, amounts[i], to_checksum_address(EXECUTOR_X)>>],
     output_tokens |-> <<<<usdc_address, revenue_bridger_address, Len(list) * usdc_threshold>>>>,
     executors |-> [i \in 1 .. Len(list) |-> <<to_checksum_address(EXECUTOR_X), 0, <<171>>>>],
     min_total_usdc |-> Len(list) * usdc_threshold,
     assumed_total_usdc |-> Len(list) * usdc_threshold,
     token_quotes |-> [i \in 1 .. Len(list) |->
                          [symbol |-> list[i].symbol,
                           token_address |-> list[i].address,
                           balance |-> amounts[i],
                           assumed_usdc_out |-> usdc_threshold,
                           min_usdc_out |-> usdc_threshold,
                           executor |-> to_checksum_address(EXECUTOR_X),
                           executor_data |-> <<171>>]]]

\* validate_swap_inputs about to be called on swap arrays; the chain may have
\* moved since the arrays were built
InitValidate ==
    /\ whitelist \in Whitelists
    /\ slippage_tolerance = Tolerance(10, 1)
    /\ holding \in [TokenAddresses -> 0 .. MaxBalance]
    /\ contract_usdc = 0
    /\ pc = "validate_swap"
    /\ error = ""
    /\ SwapLocalsIdle
    /\ \E amounts \in [1 .. MaxTokens -> 1 .. MaxBalance] :
          swap = SwapResultFor(_iter_whitelisted_tokens(whitelist), amounts)
    /\ token_validations = NoValidations
    /\ jumper_request = 0 - 1
    /\ bridge = NoBridge
    /\ route_response = NoRoute
    /\ FnIdle
    /\ AuxIdle

\* ensure_web3_connected and the three "array is empty" checks
ValidateSwapStart ==
    /\ pc = "validate_swap"
    /\ \E conn \in Connections :
          IF ensure_web3_connected(conn, TRUE) # ""
          THEN Raise(ensure_web3_connected(conn, TRUE))
          ELSE IF swap.input_tokens = <<>> \/ swap.output_tokens = <<>> \/ swap.executors = <<>>
          THEN Raise("ValueError: empty array")
          ELSE /\ pc' = "validate_token"
               /\ idx' = 1
               /\ token_validations' = [returned |-> FALSE, results |-> <<>>]
               /\ UNCHANGED <<error, tokens, balance, sushi_quote, input_tokens, executors,
                              token_quotes, total_assumed, total_min, swap, bridge,
                              route_response>>
    /\ UNCHANGED <<config_vars, chain_vars, jumper_request, fn_vars, request_log, aux_vars>>

\* one iteration: balance_of, allowance_of, the balance check, results.append
ValidateToken ==
    /\ pc = "validate_token"
    /\ idx <= Len(swap.input_tokens)
    /\ \E conn \in Connections, allowance \in 0 .. MaxBalance :
          LET token_address == swap.input_tokens[idx][1]
              amount_in     == swap.input_tokens[idx][2]
              bal           == holding[token_address]
          IN IF ensure_web3_connected(conn, FALSE) # ""
             THEN Raise(ensure_web3_connected(conn, FALSE))
             ELSE IF ~BalanceCovers(bal, amount_in)
             THEN Raise("ValueError: balance")
             ELSE /\ token_validations' =
                        [token_validations EXCEPT !.results =
                            Append(@, TokenValidationResult(
                                          to_checksum_address(token_address),
                                          symbol_of(whitelist, token_address),
                                          amount_in, bal, allowance))]
                  /\ idx' = idx + 1
                  /\ UNCHANGED <<pc, error, tokens, balance, sushi_quote, input_tokens,
                                 executors, token_quotes, total_assumed, total_min, swap,
                                 bridge, route_response>>
    /\ UNCHANGED <<config_vars, chain_vars, jumper_request, fn_vars, request_log, aux_vars>>

\* return results
ValidateSwapReturn ==
    /\ pc = "validate_token"
    /\ idx > Len(swap.input_tokens)
    /\ token_validations' = [token_validations EXCEPT !.returned = TRUE]
    /\ pc' = "bridge"
    /\ UNCHANGED <<config_vars, chain_vars, error, swap_locals, swap, jumper_request,
                   bridge, route_response, fn_vars, request_log, aux_vars>>

NextValidate ==
    \/ ExternalTransfer
    \/ ValidateSwapStart
    \/ ValidateToken
    \/ ValidateSwapReturn

\* validate_swap_inputs alone, against a chain that moves on its own
SpecValidate == InitValidate /\ [][NextValidate]_vars

(***************************************************************************)
(* Properties of validate_swap_inputs (checked under SpecValidate).         *)
(***************************************************************************)
\* an iteration of the validation loop is about to run on input token idx
AtInputToken == pc = "validate_token" /\ idx <= Len(swap.input_tokens)

\* the holding balance the iteration at idx re-reads, and its amountIn
RereadBalance == holding[swap.input_tokens[idx][1]]

AmountIn == swap.input_tokens[idx][2]

\* the step is one iteration of the validation loop (not a move of the chain)
ValidationStep == AtInputToken /\ holding' = holding

\* C10: an iteration of validate_swap_inputs whose re-read holding balance is
\* below the token's amountIn raises, and nothing is returned; an iteration
\* whose balance covers amountIn never raises the balance failure, whatever
\* the allowance, and the result it records has has_allowance false exactly
\* when the allowance is below amountIn.  A returned list therefore has one
\* result per input token, each with balance >= required_amount.
C10_BalanceShortfallRaises ==
    /\ [][(ValidationStep /\ RereadBalance < AmountIn) =>
             /\ pc' = "failed"
             /\ error' # ""
             /\ token_validations' = NoValidations]_vars
    /\ [][(ValidationStep /\ RereadBalance >= AmountIn) =>
             /\ error' # "ValueError: balance"
             /\ pc' # "failed" =>
                   LET results == token_validations'.results
                       last == results[Len(results)]
                   IN /\ results = Append(token_validations.results, last)
                      /\ last.required_amount = AmountIn
                      /\ last.balance = RereadBalance
                      /\ has_allowance(last) <=> ~(last.allowance < AmountIn)]_vars
    /\ [](token_validations.returned =>
             /\ Len(token_validations.results) = Len(swap.input_tokens)
             /\ \A i \in 1 .. Len(token_validations.results) :
                   /\ token_validations.results[i].required_amount = swap.input_tokens[i][2]
                   /\ token_validations.results[i].balance >= swap.input_tokens[i][2])

\* a list was returned holding a result whose balance covers amountIn and
\* whose allowance does not
C10_Witness ==
    /\ token_validations.returned
    /\ \E i \in 1 .. Len(token_validations.results) :
          /\ token_validations.results[i].balance >= token_validations.results[i].required_amount
          /\ token_validations.results[i].allowance < token_validations.results[i].required_amount
          /\ ~has_allowance(token_validations.results[i])

(***************************************************************************)
(* Arithmetic on native-currency amounts (wei).  Python integers have no    *)
(* upper bound; amounts of this size are digit sequences as above.          *)
(***************************************************************************)
\* d1 + d2 + carry, digit by digit from the right
RECURSIVE AddCarry(_, _, _)
AddCarry(d1, d2, carry) ==
    IF d1 = <<>> /\ d2 = <<>> THEN (IF carry = 0 THEN <<>> ELSE <<carry>>)
    ELSE LET x == IF d1 = <<>> THEN 0 ELSE d1[Len(d1)]
             y == IF d2 = <<>> THEN 0 ELSE d2[Len(d2)]
             r1 == IF d1 = <<>> THEN <<>> ELSE SubSeq(d1, 1, Len(d1) - 1)
             r2 == IF d2 = <<>> THEN <<>> ELSE SubSeq(d2, 1, Len(d2) - 1)
         IN AddCarry(r1, r2, (x + y + carry) \div 10) \o <<(x + y + carry) % 10>>

DigitsAdd(d1, d2) == Normalize(AddCarry(d1, d2, 0))

\* d1 - d2 - borrow for d1 >= d2, digit by digit from the right
RECURSIVE SubBorrow(_, _, _)
SubBorrow(d1, d2, borrow) ==
    IF d1 = <<>> THEN <<>>
    ELSE LET x == d1[Len(d1)]
             y == IF d2 = <<>> THEN 0 ELSE d2[Len(d2)]
             r2 == IF d2 = <<>> THEN <<>> ELSE SubSeq(d2, 1, Len(d2) - 1)
             low == x - y - borrow
         IN SubBorrow(SubSeq(d1, 1, Len(d1) - 1), r2, IF low < 0 THEN 1 ELSE 0)
            \o <<IF low < 0 THEN low + 10 ELSE low>>

DigitsSub(d1, d2) == Normalize(SubBorrow(d1, d2, 0))

\* d1 * d2 by long multiplication
RECURSIVE DigitsMul(_, _)
DigitsMul(d1, d2) ==
    IF d2 = <<>> THEN <<0>>
    ELSE DigitsAdd(MulSmall(DigitsMul(d1, SubSeq(d2, 1, Len(d2) - 1)), 10),
                   MulSmall(d1, d2[Len(d2)]))

\* a signed integer: sign and magnitude
Signed(neg, mag) == [neg |-> neg /\ ~IsZero(mag), mag |-> mag]

\* a machine-sized integer as a signed integer
SignedOf(n) == IF n < 0 THEN Signed(TRUE, Digits(0 - n)) ELSE Signed(FALSE, Digits(n))

\* x + y for signed integers
SignedAdd(x, y) ==
    IF x.neg = y.neg THEN Signed(x.neg, DigitsAdd(x.mag, y.mag))
    ELSE IF DigitsLeq(y.mag, x.mag) THEN Signed(x.neg, DigitsSub(x.mag, y.mag))
    ELSE Signed(y.neg, DigitsSub(y.mag, x.mag))

\* x >= y for signed integers
SignedGeq(x, y) ==
    IF x.neg # y.neg THEN y.neg
    ELSE IF x.neg THEN DigitsLeq(x.mag, y.mag)
    ELSE DigitsLeq(y.mag, x.mag)

(***************************************************************************)
(* validate_bridge_call.                                                    *)
(***************************************************************************)
\* gas units and price per unit (1 gwei, in wei) of the fixed buffer
GasBufferUnits == 1000000

GweiInWei == 1000000000

\* gas_buffer = 1_000_000 * 10**9
gas_buffer == Signed(FALSE, DigitsMul(Digits(GasBufferUnits), Digits(GweiInWei)))

\* is_zero_target never finding the zero address
is_zero_target_never(call_target) == FALSE

\* Web3.to_checksum_address(call_target) == "0x0000000000000000000000000000000000000000"
is_zero_target(call_target) == to_checksum_address(call_target) = ZERO_ADDRESS

\* required_native with the buffer left out
required_native_bare(native_value) == native_value

\* required_native = native_value + gas_buffer
required_native_of(native_value) == SignedAdd(native_value, gas_buffer)

BridgeValidationResult(call_target, native_balance, required_native, has_sufficient_native) ==
    [returned |-> TRUE, call_target |-> call_target, native_balance |-> native_balance,
     required_native |-> required_native, has_sufficient_native |-> has_sufficient_native]

\* call_target.lower() != expected.lower()
target_mismatch(call_target) == lower(call_target) # lower(lifi_diamond_address)

\* the LOGGER.warning lines of validate_bridge_call
bridge_warnings(call_target, native_balance, native_value) ==
    (IF target_mismatch(call_target) THEN {"callTarget != expected LiFiDiamond"} ELSE {})
    \cup (IF ~SignedGeq(native_balance, required_native_of(native_value))
          THEN {"Low native balance"} ELSE {})

\* validate_bridge_call raising on a call target that is not the bridge router
validate_bridge_call_strict(call_target, native_balance, native_value) ==
    IF ~is_address(call_target)
    THEN [err |-> "ValueError: address", result |-> NoBridgeValidation, warnings |-> {}]
    ELSE IF is_zero_target(call_target)
    THEN [err |-> "ValueError: zero call target", result |-> NoBridgeValidation, warnings |-> {}]
    ELSE IF target_mismatch(call_target)
    THEN [err |-> "ValueError: call target mismatch", result |-> NoBridgeValidation, warnings |-> {}]
    ELSE [err |-> "",
          result |-> BridgeValidationResult(
                        call_target, native_balance, required_native_of(native_value),
                        SignedGeq(native_balance, required_native_of(native_value))),
          warnings |-> bridge_warnings(call_target, native_balance, native_value)]

\* validate_bridge_call: the error raised ("" if none), the result and the
\* warnings logged
validate_bridge_call(call_target, native_balance, native_value) ==
    IF ~is_address(call_target)
    THEN [err |-> "ValueError: address", result |-> NoBridgeValidation, warnings |-> {}]
    ELSE IF is_zero_target(call_target)
    THEN [err |-> "ValueError: zero call target", result |-> NoBridgeValidation, warnings |-> {}]
    ELSE [err |-> "",
          result |-> BridgeValidationResult(
                        call_target, native_balance, required_native_of(native_value),
                        SignedGeq(native_balance, required_native_of(native_value))),
          warnings |-> bridge_warnings(call_target, native_balance, native_value)]

(***************************************************************************)
(* validate_executor_payloads.  An executor entry is (executor, value,      *)
(* data).  A bytes payload is a sequence of 0..255; a payload of another    *)
(* type (text) is a sequence holding something that is no byte.             *)
(***************************************************************************)
TextPayload == <<0 - 1>>

\* isinstance(data, (bytes, bytearray))
is_bytes(data) == \A i \in 1 .. Len(data) : data[i] >= 0 /\ data[i] <= 255

\* the checks of one entry: the error raised, "" if none
executor_error(entry) ==
    IF ~is_checksum_address(entry[1]) THEN "ValueError: executor address"
    ELSE IF ~is_bytes(entry[3]) THEN "TypeError: executor data"
    ELSE ""

\* validate_executor_payloads: the error of the first entry that has one
RECURSIVE validate_executor_payloads(_)
validate_executor_payloads(execs) ==
    IF execs = <<>> THEN ""
    ELSE IF executor_error(Head(execs)) # "" THEN executor_error(Head(execs))
    ELSE validate_executor_payloads(Tail(execs))

\* validate_executor_payloads(swap.executors) in prepare_plan
ValidateExecutors ==
    /\ pc = "validate_executors"
    /\ IF validate_executor_payloads(swap.executors) # ""
       THEN Raise(validate_executor_payloads(swap.executors))
       ELSE /\ pc' = "validate_swap"
            /\ UNCHANGED <<error, swap_locals, swap, token_validations, bridge, route_response>>
    /\ UNCHANGED <<config_vars, chain_vars, jumper_request, fn_vars, request_log, aux_vars>>

(***************************************************************************)
(* RelayerExecutor: prepare_plan after build_bridge_call, and what          *)
(* execute_dry_run and execute_send do with the plan.  relayer.did lists    *)
(* the steps taken with a plan: "estimate_gas", "sign", "broadcast".        *)
(***************************************************************************)
\* native balances of the signer, around what a bridge call requires
NativeOffsets == {0 - 2, 0 - 1, 0, 15, 16}

NativeBalances ==
    {Signed(FALSE, <<0>>)} \cup {SignedAdd(gas_buffer, SignedOf(n)) : n \in NativeOffsets}

RelayerModes == {"dry_run", "send"}

\* native_balance = web3.eth.get_balance(...); validate_bridge_call; return ExecutionPlan
ValidateBridgeWith(balances) ==
    /\ pc = "bridge_built"
    /\ \E conn \in {"ok", "down"}, native_balance \in balances :
          LET v == validate_bridge_call(bridge.call_target, native_balance,
                                        SignedOf(bridge.native_value))
          IN IF conn = "down"
             THEN Raise("ConnectionError: rpc") /\ UNCHANGED <<bridge_validation, relayer>>
             ELSE IF v.err # ""
             THEN Raise(v.err) /\ UNCHANGED <<bridge_validation, relayer>>
             ELSE /\ bridge_validation' = v.result
                  /\ relayer' = [relayer EXCEPT !.plan = TRUE]
                  /\ pc' = "plan_ready"
                  /\ UNCHANGED <<error, swap_locals, swap, token_validations, bridge,
                                 route_response>>
    /\ UNCHANGED <<config_vars, chain_vars, jumper_request, fn_vars, request_log,
                   passes, registry, chain_read>>

\* the step with every native balance of the signer
ValidateBridge == ValidateBridgeWith(NativeBalances)

\* gas=1_000_000 of _fallback_gas
FallbackGas == 1000000

\* what swapAndBridge(...).estimate_gas answers when it succeeds
GasEstimates == {21000, 400000}

\* "gas": int(gas.gas * 1.1)
tx_gas_limit(gas) == (gas * 11) \div 10

\* on_estimate_failure letting the failure through in every mode
on_estimate_failure_raise(mode) == "raise"

\* what the caller of estimate_gas does with its failure: execute_dry_run
\* catches nothing, execute_send catches Exception and calls _fallback_gas
on_estimate_failure(mode) == IF mode = "send" THEN "fallback" ELSE "raise"

\* estimate_gas(plan), and in execute_send the except clause with
\* _fallback_gas, which reads the gas price again
EstimateGas ==
    /\ pc = "plan_ready"
    /\ \E outcome \in {"ok", "revert", "error"}, fallback \in {"ok", "error"},
          g \in GasEstimates :
          IF outcome = "ok"
          THEN /\ relayer' = [relayer EXCEPT !.did = Append(@, "estimate_gas"), !.gas = g]
               /\ pc' = IF relayer.mode = "dry_run" THEN "dry_run_done" ELSE "build_tx"
               /\ UNCHANGED <<error, swap_locals, swap, token_validations, bridge,
                              route_response>>
          ELSE IF on_estimate_failure(relayer.mode) = "raise"
          THEN /\ relayer' = [relayer EXCEPT !.did = Append(@, "estimate_gas")]
               /\ Raise(IF outcome = "revert" THEN "ValueError: revert"
                                              ELSE "ConnectionError: rpc")
          ELSE IF fallback = "error"
          THEN /\ relayer' = [relayer EXCEPT
                                 !.did = Append(Append(@, "estimate_gas"), "fallback_gas")]
               /\ Raise("ConnectionError: rpc")
          ELSE /\ relayer' = [relayer EXCEPT
                                 !.did = Append(Append(@, "estimate_gas"), "fallback_gas"),
                                 !.gas = FallbackGas]
               /\ pc' = "build_tx"
               /\ UNCHANGED <<error, swap_locals, swap, token_validations, bridge,
                              route_response>>
    /\ UNCHANGED <<config_vars, chain_vars, jumper_request, fn_vars, request_log,
                   bridge_validation, passes, registry, chain_read>>

\* build_transaction(plan, gas): the nonce read and the payload
BuildTransaction ==
    /\ pc = "build_tx"
    /\ \E conn \in {"ok", "down"} :
          IF conn = "down" THEN Raise("ConnectionError: rpc") /\ UNCHANGED relayer
          ELSE /\ pc' = "sign"
               /\ relayer' = [relayer EXCEPT !.tx_gas = tx_gas_limit(relayer.gas)]
               /\ UNCHANGED <<error, swap_locals, swap, token_validations, bridge,
                              route_response>>
    /\ UNCHANGED <<config_vars, chain_vars, jumper_request, fn_vars, request_log,
                   bridge_validation, passes, registry, chain_read>>

\* signed = self.account.sign_transaction(tx)
SignTransaction ==
    /\ pc = "sign"
    /\ relayer' = [relayer EXCEPT !.did = Append(@, "sign")]
    /\ pc' = "broadcast"
    /\ UNCHANGED <<config_vars, chain_vars, error, swap_locals, swap, token_validations,
                   jumper_request, bridge, route_response, fn_vars, request_log,
                   bridge_validation, passes, registry, chain_read>>

\* tx_hash = self.web3.eth.send_raw_transaction(signed.raw_transaction)
Broadcast ==
    /\ pc = "broadcast"
    /\ relayer' = [relayer EXCEPT !.did = Append(@, "broadcast")]
    /\ \E conn \in {"ok", "down"} :
          IF conn = "down" THEN Raise("ConnectionError: rpc")
          ELSE /\ pc' = "sent"
               /\ UNCHANGED <<error, swap_locals, swap, token_validations, bridge,
                              route_response>>
    /\ UNCHANGED <<config_vars, chain_vars, jumper_request, fn_vars, request_log,
                   bridge_validation, passes, registry, chain_read>>

(***************************************************************************)
(* One whole run of execute_dry_run or execute_send.  The services answer   *)
(* from a short list: one route of each shape, dust, and the failures of    *)
(* the transport and of the connection check; a bridge quote to the         *)
(* expected target, one to the zero address, and a failed one.              *)
(***************************************************************************)
\* longest whitelist drawn for a whole run
MaxRunTokens == 1

RunWhitelists == {w \in Whitelists : Len(w) <= MaxRunTokens}

RunResponses ==
    {RouteResponse("ok", "Success", TRUE, MultiTx, 1, usdc_threshold, "ok"),
     RouteResponse("ok", "Success", TRUE, LegacyTx, 1, usdc_threshold - 1, "ok"),
     RouteResponse("fail", "Success", TRUE, MultiTx, 1, usdc_threshold, "ok"),
     RouteResponse("ok", "Success", TRUE, MultiTx, 1, usdc_threshold, "down")}

RunBridgeResponses ==
    {BridgeResponse("ok", {}, lifi_diamond_address, OkData, OkValue, "ok"),
     BridgeResponse("ok", {}, ZERO_ADDRESS, OkData, OkValue, "ok"),
     BridgeResponse("fail", {}, lifi_diamond_address, OkData, OkValue, "ok")}
    \cup {BridgeResponse("ok", {k}, lifi_diamond_address, OkData, OkValue, "ok") :
             k \in {"transactionRequest", "to", "data", "value"}}

RunNativeBalances == {Signed(FALSE, <<0>>), SignedAdd(gas_buffer, SignedOf(16))}

\* execute_dry_run or execute_send about to call prepare_plan
InitRun ==
    /\ whitelist \in RunWhitelists
    /\ slippage_tolerance = Tolerance(98, 2)
    /\ holding \in [TokenAddresses -> 0 .. MaxBalance]
    /\ contract_usdc \in 0 .. MaxResidue
    /\ pc = "swap_start"
    /\ error = ""
    /\ SwapLocalsIdle
    /\ swap = NoSwap
    /\ token_validations = NoValidations
    /\ jumper_request = 0 - 1
    /\ bridge = NoBridge
    /\ route_response = NoRoute
    /\ route_out = NoRouteResult
    /\ dec_in = NoDecimal
    /\ dec_out = NoMinOut
    /\ request_log = <<>>
    /\ bridge_validation = NoBridgeValidation
    /\ relayer \in [mode : RelayerModes, plan : {FALSE}, did : {<<>>}, gas : {0}, tx_gas : {0}]
    /\ passes = NoPasses
    /\ registry = NoRegistry
    /\ chain_read = NoChainRead

RunSwapQuote == SwapQuoteFrom(RunResponses)

RunBridgeQuote == BridgeQuoteFrom(RunBridgeResponses)

RunValidateBridge == ValidateBridgeWith(RunNativeBalances)

Next ==
    \/ ExternalTransfer
    \/ SwapStart
    \/ SwapReadBalance
    \/ RunSwapQuote
    \/ SwapFilter
    \/ SwapFinish
    \/ ValidateExecutors
    \/ ValidateSwapStart
    \/ ValidateToken
    \/ ValidateSwapReturn
    \/ BridgeReadBalance
    \/ RunBridgeQuote
    \/ RunValidateBridge
    \/ EstimateGas
    \/ BuildTransaction
    \/ SignTransaction
    \/ Broadcast

\* one run of execute_dry_run or execute_send; the holding balances move
\* during the run, the destination contract's balance does not
Spec == InitRun /\ [][Next]_vars

(***************************************************************************)
(* Properties of a whole run (checked under Spec).                          *)
(***************************************************************************)
\* C11: when the bridge quote names the zero address as call target,
\* build_bridge_call has returned its result, but the next step of
\* prepare_plan raises: no plan is returned and the run ends without gas
\* estimation, signing or broadcast, in execute_dry_run and execute_send
\* alike.  Whatever a run does with a plan, it does with a plan whose call
\* target passed validate_bridge_call and is not the zero address.
C11_ZeroTargetStopsRun ==
    /\ [][(pc = "bridge_built" /\ bridge.call_target = ZERO_ADDRESS /\ pc' # pc) =>
             /\ bridge.returned
             /\ pc' = "failed"
             /\ error' \in {"ValueError: zero call target", "ConnectionError: rpc"}
             /\ ~relayer'.plan
             /\ relayer'.did = <<>>]_vars
    /\ []((relayer.plan \/ relayer.did # <<>>) =>
             /\ bridge_validation.returned
             /\ bridge_validation.call_target # ZERO_ADDRESS)
    /\ [][pc = "failed" => pc' = "failed"]_vars

\* a send run whose bridge quote named the zero address ended in the
\* validation failure, with nothing estimated, signed or broadcast
C11_Witness ==
    /\ relayer.mode = "send"
    /\ pc = "failed"
    /\ error = "ValueError: zero call target"
    /\ jumper_request >= 0
    /\ ~relayer.plan
    /\ relayer.did = <<>>

(***************************************************************************)
(* validate_bridge_call exercised on every bridge call within the bounds:   *)
(* prepare_plan has a BridgeBuildResult in hand and reads the signer's      *)
(* native balance.                                                          *)
(***************************************************************************)
\* largest native value a bridge call is drawn with
MaxNativeValue == 16

NativeValues == {0 - 1} \cup (0 .. MaxNativeValue)

BridgeTargets ==
    {lifi_diamond_address, lower(lifi_diamond_address), to_checksum_address(EXECUTOR_X),
     ZERO_ADDRESS}

\* a BridgeBuildResult for the one-token swap result at the dust threshold
BridgeResultOf(call_target, native_value) ==
    [returned |-> TRUE,
     call_target |-> call_target,
     call_data |-> <<171>>,
     native_value |-> native_value,
     bridge_amount |-> usdc_threshold,
     contract_usdc_balance |-> 0,
     min_total_usdc |-> usdc_threshold,
     jumper_payload |-> BridgeResponse("ok", {}, call_target, OkData, OkValue, "ok")]

InitBridgeValidate ==
    /\ whitelist = <<TokenConfig(1, TOKEN_A)>>
    /\ slippage_tolerance = Tolerance(10, 1)
    /\ holding = [a \in TokenAddresses |-> IF a = TOKEN_A THEN 1 ELSE 0]
    /\ contract_usdc = 0
    /\ pc = "bridge_built"
    /\ error = ""
    /\ SwapLocalsIdle
    /\ swap = SwapResultOf(usdc_threshold, usdc_threshold)
    /\ token_validations =
          [returned |-> TRUE,
           results |-> <<TokenValidationResult(TOKEN_A, 1, 1, 1, 1)>>]
    /\ jumper_request = usdc_threshold
    /\ \E call_target \in BridgeTargets, native_value \in NativeValues :
          bridge = BridgeResultOf(call_target, native_value)
    /\ route_response = NoRoute
    /\ route_out = NoRouteResult
    /\ dec_in = NoDecimal
    /\ dec_out = NoMinOut
    /\ request_log = <<RouteRequest(1, 1), BridgeRequest(usdc_threshold)>>
    /\ bridge_validation = NoBridgeValidation
    /\ relayer = NoRelayer
    /\ passes = NoPasses
    /\ registry = NoRegistry
    /\ chain_read = NoChainRead

NextBridgeValidate == ValidateBridge

SpecBridgeValidate == InitBridgeValidate /\ [][NextBridgeValidate]_vars

(***************************************************************************)
(* Properties of validate_bridge_call (checked under SpecBridgeValidate).   *)
(***************************************************************************)
\* C12: for every call target other than the zero address,
\* validate_bridge_call returns required_native = native_value + 10^15 and
\* has_sufficient_native = (native_balance >= required_native); a native
\* balance below the requirement is recorded, never raised: the only
\* failure of the step is the balance read itself.
C12_RequiredNativeIsValuePlusBuffer ==
    /\ [][(pc = "bridge_built" /\ bridge.call_target # ZERO_ADDRESS /\ pc' # pc) =>
             \/ pc' = "failed" /\ error' = "ConnectionError: rpc"
             \/ /\ pc' = "plan_ready"
                /\ bridge_validation'.returned
                /\ bridge_validation'.call_target = bridge.call_target
                /\ bridge_validation'.required_native =
                      SignedAdd(SignedOf(bridge.native_value), Signed(FALSE, PowTen(15)))
                /\ bridge_validation'.has_sufficient_native <=>
                      SignedGeq(bridge_validation'.native_balance,
                                bridge_validation'.required_native)]_vars
    /\ [][(pc = "bridge_built" /\ bridge.call_target # ZERO_ADDRESS) =>
             \A native_balance \in NativeBalances :
                validate_bridge_call(bridge.call_target, native_balance,
                                     SignedOf(bridge.native_value)).err = ""]_vars

\* a bridge call of native value 16 met a balance one wei short of
\* 10^15 + 16: the result was returned with has_sufficient_native false
C12_Witness ==
    /\ pc = "plan_ready"
    /\ bridge.native_value = 16
    /\ bridge_validation.returned
    /\ bridge_validation.required_native = Signed(FALSE, AddCarry(PowTen(15), <<1, 6>>, 0))
    /\ bridge_validation.native_balance = Signed(FALSE, AddCarry(PowTen(15), <<1, 5>>, 0))
    /\ ~bridge_validation.has_sufficient_native

(***************************************************************************)
(* validate_executor_payloads exercised alone on every executor list        *)
(* within the bounds.                                                       *)
(***************************************************************************)
ExecutorTargets ==
    {to_checksum_address(EXECUTOR_X), EXECUTOR_X, ZERO_ADDRESS, Malformed}

ExecutorCalls ==
    {<<a, value, data>> :
        a \in ExecutorTargets, value \in {0, 1}, data \in ExecutorPayloads \cup {TextPayload}}

InitExecutors ==
    /\ whitelist = <<TokenConfig(1, TOKEN_A)>>
    /\ slippage_tolerance = Tolerance(10, 1)
    /\ holding = [a \in TokenAddresses |-> IF a = TOKEN_A THEN 1 ELSE 0]
    /\ contract_usdc = 0
    /\ pc = "validate_executors"
    /\ error = ""
    /\ SwapLocalsIdle
    /\ \E execs \in SeqsUpTo(ExecutorCalls, MaxExecutors) :
          swap = [SwapResultOf(usdc_threshold, usdc_threshold) EXCEPT !.executors = execs]
    /\ token_validations = NoValidations
    /\ jumper_request = 0 - 1
    /\ bridge = NoBridge
    /\ route_response = NoRoute
    /\ route_out = NoRouteResult
    /\ dec_in = NoDecimal
    /\ dec_out = NoMinOut
    /\ request_log = <<RouteRequest(1, 1)>>
    /\ bridge_validation = NoBridgeValidation
    /\ relayer = NoRelayer
    /\ passes = NoPasses
    /\ registry = NoRegistry
    /\ chain_read = NoChainRead

NextExecutors == ValidateExecutors

SpecExecutors == InitExecutors /\ [][NextExecutors]_vars

(***************************************************************************)
(* Properties of validate_executor_payloads (checked under SpecExecutors).  *)
(***************************************************************************)
\* what every executor call must carry: a checksummed target that is not the
\* zero address, and a bytes payload
WellFormedExecutor(entry) ==
    /\ is_checksum_address(entry[1])
    /\ entry[1] # ZERO_ADDRESS
    /\ is_bytes(entry[3])

\* C13: validate_executor_payloads raises for exactly the executor lists
\* holding an entry whose target is not checksummed, whose target is the
\* zero address, or whose payload is not bytes; a non-zero native value
\* alone does not make it raise.
C13_RejectsMalformedExecutors ==
    [][(pc = "validate_executors" /\ pc' # pc) =>
          (pc' = "failed" <=>
              \E i \in 1 .. Len(swap.executors) : ~WellFormedExecutor(swap.executors[i]))]_vars

(***************************************************************************)
(* Further properties of build_bridge_call (checked under SpecBridge).      *)
(***************************************************************************)
\* C14: the native_value of every BridgeBuildResult returned is a
\* non-negative integer, whatever value string the quote's transaction
\* envelope carries.
C14_NativeValueNonNegative == bridge.returned => bridge.native_value >= 0

(***************************************************************************)
(* Further properties of a whole run (checked under Spec).                  *)
(***************************************************************************)
\* the requests of the log sent to one service
RequestsTo(service) == {i \in 1 .. Len(request_log) : request_log[i].service = service}

\* C15: within one pass nothing is requested twice.  Every request is sent
\* by the quote step of the token at hand, which has a non-zero balance and
\* no earlier request, or by the bridge build, which has no earlier request;
\* a step that finds a zero balance, and every step after a failure, sends
\* nothing.  So each whitelisted token has at most one route request and the
\* pass at most one bridge request.
C15_NoRetry ==
    /\ [][request_log' # request_log =>
             \/ /\ pc = "swap_quote"
                /\ balance # 0
                /\ \A i \in RequestsTo("route") : request_log[i].symbol # tokens[idx].symbol
                /\ request_log' = Append(request_log, RouteRequest(tokens[idx].symbol, balance))
             \/ /\ pc = "bridge_quote"
                /\ RequestsTo("bridge") = {}
                /\ request_log' = Append(request_log, BridgeRequest(bridge.bridge_amount))]_vars
    /\ [][(pc = "swap_loop" /\ idx <= Len(tokens) /\ holding[tokens[idx].address] = 0
           /\ holding' = holding) =>
             /\ request_log' = request_log
             /\ pc' # "swap_quote"]_vars
    /\ [][pc = "failed" => (pc' = "failed" /\ request_log' = request_log)]_vars
    /\ [](/\ Cardinality(RequestsTo("bridge")) <= 1
          /\ \A i, j \in RequestsTo("route") :
                request_log[i].symbol = request_log[j].symbol => i = j
          /\ \A i \in RequestsTo("route") :
                \E k \in 1 .. Len(whitelist) : whitelist[k].symbol = request_log[i].symbol)

\* the bridge-quoting service failed: the pass ended with the one bridge
\* request it had sent, after the one route request of its token
C15_Witness ==
    /\ pc = "failed"
    /\ error = "ConnectionError: fetch"
    /\ Cardinality(RequestsTo("bridge")) = 1
    /\ Cardinality(RequestsTo("route")) = 1
    /\ Len(whitelist) = 1

(***************************************************************************)
(* Further properties of build_swap_parameters (checked under SpecSwap).    *)
(***************************************************************************)
\* the records of a sequence are in strictly ascending symbol order
AscendingSymbols(seq) ==
    \A i, j \in 1 .. Len(seq) : i < j => seq[i].symbol < seq[j].symbol

\* two whitelists hold the same entries, possibly in another order
SameEntries(w1, w2) ==
    /\ Len(w1) = Len(w2)
    /\ {w1[i] : i \in 1 .. Len(w1)} = {w2[i] : i \in 1 .. Len(w2)}

\* C16: build_swap_parameters works through the whitelist in ascending
\* symbol order: the list it iterates is the whitelist sorted by symbol, the
\* quotes are requested and the arrays filled in that order, and every
\* whitelist holding the same entries in another configuration order gives
\* the same list to iterate, which is all the build reads of the whitelist,
\* so the same answers give the same arrays and totals.
C16_SymbolOrder ==
    /\ (pc \notin {"swap_start", "failed"}) =>
          /\ SameEntries(tokens, whitelist)
          /\ AscendingSymbols(tokens)
    /\ AscendingSymbols(token_quotes)
    /\ AscendingSymbols([i \in 1 .. Len(request_log) |-> request_log[i]])
    /\ \A i \in 1 .. Len(token_quotes) :
          /\ input_tokens[i][1] = token_quotes[i].token_address
          /\ executors[i][1] = token_quotes[i].executor
    /\ swap.returned =>
          /\ AscendingSymbols(swap.token_quotes)
          /\ swap.token_quotes = token_quotes
          /\ swap.input_tokens = input_tokens
          /\ swap.executors = executors
    /\ \A w2 \in Whitelists :
          SameEntries(w2, whitelist) =>
             _iter_whitelisted_tokens(w2) = _iter_whitelisted_tokens(whitelist)

\* a whitelist configured in descending symbol order gave arrays in
\* ascending order
C16_Witness ==
    /\ whitelist = <<TokenConfig(2, TOKEN_B), TokenConfig(1, TOKEN_A)>>
    /\ swap.returned
    /\ Len(swap.token_quotes) = 2
    /\ swap.token_quotes[1].symbol = 1
    /\ swap.token_quotes[2].symbol = 2
    /\ swap.input_tokens[1][1] = TOKEN_A
    /\ swap.input_tokens[2][1] = TOKEN_B

(***************************************************************************)
(* Two passes of prepare_plan run side by side against one holding account  *)
(* (two relayer processes, or two threads), with no transfer in between.    *)
(* passes[p] is the build and validation part of pass p:                    *)
(*   pc            "loop", "quote", "validate", "planned" or "failed"       *)
(*   idx           position of the build loop, then of the validation loop  *)
(*   balance       the balance the build loop read for the token at idx     *)
(*   input_tokens  (token address, amountIn) of the tokens included so far  *)
(*   error         the message of the ValueError that ended the pass, or "" *)
(***************************************************************************)
PassIds == {1, 2}

PassStart == [pc |-> "loop", idx |-> 1, balance |-> 0, input_tokens |-> <<>>, error |-> ""]

\* balance_of answering what the other pass has not planned to spend
balance_of_unreserved(p, a) ==
    LET other == passes[3 - p].input_tokens
        taken == IF \E i \in 1 .. Len(other) : other[i][1] = a
                 THEN other[CHOOSE i \in 1 .. Len(other) : other[i][1] = a][2]
                 ELSE 0
    IN IF holding[a] >= taken THEN holding[a] - taken ELSE 0

\* balance_of(web3, token, holding account) as pass p calls it
balance_of(p, a) == holding[a]

PassTokens == _iter_whitelisted_tokens(whitelist)

InitTwoPasses ==
    /\ whitelist \in RunWhitelists
    /\ slippage_tolerance = Tolerance(10, 1)
    /\ holding \in [TokenAddresses -> 0 .. MaxBalance]
    /\ contract_usdc = 0
    /\ pc = "two_passes"
    /\ error = ""
    /\ SwapLocalsIdle
    /\ swap = NoSwap
    /\ token_validations = NoValidations
    /\ jumper_request = 0 - 1
    /\ bridge = NoBridge
    /\ route_response = NoRoute
    /\ route_out = NoRouteResult
    /\ dec_in = NoDecimal
    /\ dec_out = NoMinOut
    /\ request_log = <<>>
    /\ bridge_validation = NoBridgeValidation
    /\ relayer = NoRelayer
    /\ passes = <<PassStart, PassStart>>
    /\ registry = NoRegistry
    /\ chain_read = NoChainRead

two_pass_frame == <<config_vars, chain_vars, pc, error, swap_locals, swap, token_validations,
                    jumper_request, bridge, route_response, fn_vars, request_log,
                    bridge_validation, relayer, registry, chain_read>>

\* build loop of pass p: read the balance; zero balance -> continue
PassReadBalance(p) ==
    /\ passes[p].pc = "loop"
    /\ passes[p].idx <= Len(PassTokens)
    /\ LET bal == balance_of(p, PassTokens[passes[p].idx].address)
       IN passes' = [passes EXCEPT ![p] =
             IF bal = 0
             THEN [@ EXCEPT !.idx = @ + 1]
             ELSE [@ EXCEPT !.balance = bal, !.pc = "quote"]]
    /\ UNCHANGED two_pass_frame

\* build loop of pass p: the quote; the token is included with
\* amountIn = balance, or skipped (failed quote, dust)
PassQuote(p) ==
    /\ passes[p].pc = "quote"
    /\ \E included \in BOOLEAN :
          passes' = [passes EXCEPT ![p] =
             [pc |-> "loop",
              idx |-> @.idx + 1,
              balance |-> 0,
              error |-> "",
              input_tokens |->
                 IF included
                 THEN Append(@.input_tokens, <<PassTokens[@.idx].address, @.balance>>)
                 ELSE @.input_tokens]]
    /\ UNCHANGED two_pass_frame

\* end of the build loop of pass p: "no eligible tokens", or on to validation
PassBuilt(p) ==
    /\ passes[p].pc = "loop"
    /\ passes[p].idx > Len(PassTokens)
    /\ passes' = [passes EXCEPT ![p] =
          IF @.input_tokens = <<>>
          THEN [@ EXCEPT !.pc = "failed", !.idx = 1, !.error = "no eligible tokens"]
          ELSE [@ EXCEPT !.pc = "validate", !.idx = 1]]
    /\ UNCHANGED two_pass_frame

\* validate_swap_inputs of pass p: re-read the balance, raise on a shortfall
PassValidateToken(p) ==
    /\ passes[p].pc = "validate"
    /\ passes[p].idx <= Len(passes[p].input_tokens)
    /\ LET entry == passes[p].input_tokens[passes[p].idx]
       IN passes' = [passes EXCEPT ![p] =
             IF ~BalanceCovers(balance_of(p, entry[1]), entry[2])
             THEN [@ EXCEPT !.pc = "failed", !.idx = 1, !.error = "insufficient balance"]
             ELSE [@ EXCEPT !.idx = @ + 1]]
    /\ UNCHANGED two_pass_frame

\* validate_swap_inputs of pass p returns: the plan is validated
PassPlanned(p) ==
    /\ passes[p].pc = "validate"
    /\ passes[p].idx > Len(passes[p].input_tokens)
    /\ passes' = [passes EXCEPT ![p] = [@ EXCEPT !.pc = "planned"]]
    /\ UNCHANGED two_pass_frame

PassNext(p) ==
    \/ PassReadBalance(p)
    \/ PassQuote(p)
    \/ PassBuilt(p)
    \/ PassValidateToken(p)
    \/ PassPlanned(p)

NextTwoPasses == \E p \in PassIds : PassNext(p)

SpecTwoPasses == InitTwoPasses /\ [][NextTwoPasses]_vars


PlannedAmount(p, a) ==
    LET plan == passes[p].input_tokens
    IN IF \E i \in 1 .. Len(plan) : plan[i][1] = a
       THEN plan[CHOOSE i \in 1 .. Len(plan) : plan[i][1] = a][2]
       ELSE 0

\* C17: two prepare_plan passes interleaved against one holding account, with
\* no transfer in between, are independent of each other: a pass that has not
\* ended always has a step to take (it waits for no lock), every amountIn a
\* pass plans is the full holding balance of the token whatever the other
\* pass has planned, the re-read in validation never finds a shortfall, and
\* when both passes return validated plans holding the same token the two
\* amountIn add up to more than the holding balance.
C17_NoLockDoubleSpend ==
    /\ \A p \in PassIds :
          /\ (passes[p].pc \notin {"planned", "failed"}) => ENABLED PassNext(p)
          /\ \A i \in 1 .. Len(passes[p].input_tokens) :
                /\ passes[p].input_tokens[i][2] = holding[passes[p].input_tokens[i][1]]
                /\ passes[p].input_tokens[i][2] > 0
          /\ passes[p].error # "insufficient balance"
    /\ (passes[1].pc = "planned" /\ passes[2].pc = "planned") =>
          \A a \in TokenAddresses :
             (PlannedAmount(1, a) > 0 /\ PlannedAmount(2, a) > 0) =>
                PlannedAmount(1, a) + PlannedAmount(2, a) > holding[a]

\* both passes returned a validated plan spending the whole balance of one token
C17_Witness ==
    /\ passes[1].pc = "planned"
    /\ passes[2].pc = "planned"
    /\ \E a \in TokenAddresses :
          /\ holding[a] > 0
          /\ PlannedAmount(1, a) = holding[a]
          /\ PlannedAmount(2, a) = holding[a]
          /\ PlannedAmount(1, a) + PlannedAmount(2, a) > holding[a]


ConnectivityErrors == {"ConnectionError: rpc", "ValueError: chain id"}

\* C19: a connectivity failure found by the connection check made while a
\* token's route quote is obtained (endpoint unreachable, or wrong chain
\* identifier) is fatal: the step of the build that handles it raises, and
\* never goes on to the next token.
C19_ConnectivityFailureIsFatal ==
    [][(pc = "swap_filter" /\ sushi_quote.err \in ConnectivityErrors) => pc' = "failed"]_vars


(***************************************************************************)
(* Token reads (core/tokens.py) and the module-level contract-handle cache. *)
(* registry is the interpreter's view of the connections:                   *)
(*   objects  the connection objects that exist: serial (the order of       *)
(*            creation, which names the connection), id (what id() returns  *)
(*            for the object: its memory address) and state (what the       *)
(*            endpoint behind it answers)                                   *)
(*   held     serials of the connections the program still references       *)
(*   cache    _CONTRACT_CACHE: entries (id, address) -> handle; a handle    *)
(*            is bound to the connection it was created through (w3) and    *)
(*            makes its calls through it                                    *)
(*   serial   number of connections created so far                          *)
(*   freed    the ids of the connection objects reclaimed so far            *)
(* chain_read is the last balance_of / allowance_of call: its arguments,    *)
(* whether the on-chain view was called, the error raised or the value      *)
(* returned, and the connection whose handle answered.                      *)
(***************************************************************************)
\* connections created in one run
MaxConnections == 2
\* memory addresses at which a connection object can be allocated
MaxObjectIds == 2

ObjectIds == 1 .. MaxObjectIds

ConnStates == {"ok", "down", "wrong_chain"}

ReadForms == {"checksum", "lower"}

\* the connections kept alive by the program's references alone
Referenced_weak(held, cache) == held

\* the connections kept alive: those the program references and those a
\* cached handle is bound to
Referenced(held, cache) == held \cup {e.w3 : e \in cache}

\* reference counting: the objects that remain once the references are held/cache
Surviving(objects, held, cache) == {c \in objects : c.serial \in Referenced(held, cache)}

ConnectionOf(s) == CHOOSE c \in registry.objects : c.serial = s

\* ensure_web3_connected(web3) as get_contract calls it: no expected chain id
get_contract_error(c) ==
    IF c.state = "down" THEN "ConnectionError: rpc" ELSE ""

\* key = (id(web3), checksum_address)
cache_key(c, token_address) == [id |-> c.id, address |-> to_checksum_address(token_address)]

CacheHit(c, token_address) ==
    \E e \in registry.cache : e.id = cache_key(c, token_address).id
                              /\ e.address = cache_key(c, token_address).address

\* _get_or_create_contract: the cached handle, or a new one bound to web3
_get_or_create_contract(c, token_address) ==
    IF CacheHit(c, token_address)
    THEN CHOOSE e \in registry.cache : e.id = cache_key(c, token_address).id
                                       /\ e.address = cache_key(c, token_address).address
    ELSE [id |-> cache_key(c, token_address).id,
          address |-> cache_key(c, token_address).address,
          w3 |-> c.serial]

\* chain state during the reads: the allowance the holding account has granted
granted_allowance == MaxBalance

tokens_frame == <<config_vars, chain_vars, pc, error, swap_locals, swap, token_validations,
                  jumper_request, bridge, route_response, fn_vars, request_log,
                  bridge_validation, relayer, passes>>

InitTokens ==
    /\ whitelist = <<TokenConfig(1, TOKEN_A)>>
    /\ slippage_tolerance = Tolerance(10, 1)
    /\ holding = [a \in TokenAddresses |-> IF a = TOKEN_A THEN MaxBalance ELSE 0]
    /\ contract_usdc = 0
    /\ pc = "tokens"
    /\ error = ""
    /\ SwapLocalsIdle
    /\ swap = NoSwap
    /\ token_validations = NoValidations
    /\ jumper_request = 0 - 1
    /\ bridge = NoBridge
    /\ route_response = NoRoute
    /\ FnIdle
    /\ AuxIdle

\* Web3(Web3.HTTPProvider(url)) / web3_factory(url): a new connection object,
\* allocated at an address no existing object occupies
CreateConnection ==
    /\ registry.serial < MaxConnections
    /\ \E i \in ObjectIds \ {c.id : c \in registry.objects}, st \in ConnStates :
          registry' = [registry EXCEPT
             !.serial = @ + 1,
             !.objects = @ \cup {[serial |-> registry.serial + 1, id |-> i, state |-> st]},
             !.held = @ \cup {registry.serial + 1}]
    /\ UNCHANGED <<tokens_frame, chain_read>>

\* the program drops its reference to a connection; the object is reclaimed
\* when nothing references it any more
DisposeConnection ==
    /\ \E s \in registry.held :
          LET held == registry.held \ {s}
              kept == Surviving(registry.objects, held, registry.cache)
          IN registry' = [registry EXCEPT
                !.held = held,
                !.objects = kept,
                !.freed = @ \cup {c.id : c \in registry.objects \ kept}]
    /\ UNCHANGED <<tokens_frame, chain_read>>

\* balance_of / allowance_of through connection s: get_contract, then the view call
TokenRead(fn, s, token_address, value) ==
    LET c == ConnectionOf(s)
        handle == _get_or_create_contract(c, token_address)
    IN IF get_contract_error(c) # ""
       THEN /\ chain_read' = [fn |-> fn, conn |-> c.state, token |-> handle.address,
                              called |-> FALSE, err |-> get_contract_error(c), value |-> 0,
                              through |-> s, made_by |-> 0, hit |-> FALSE]
            /\ UNCHANGED registry
       ELSE /\ chain_read' = [fn |-> fn, conn |-> c.state, token |-> handle.address,
                              called |-> TRUE, err |-> "", value |-> value,
                              through |-> s, made_by |-> handle.w3,
                              hit |-> CacheHit(c, token_address)]
            /\ registry' = [registry EXCEPT !.cache = @ \cup {handle}]

\* balance_of(web3, token_address, owner)
BalanceOf ==
    /\ \E s \in registry.held, a \in TokenAddresses, f \in ReadForms :
          TokenRead("balance_of", s, Address(a.id, f), holding[a])
    /\ UNCHANGED tokens_frame

\* allowance_of(web3, token_address, owner, spender)
AllowanceOf ==
    /\ \E s \in registry.held, a \in TokenAddresses, f \in ReadForms :
          TokenRead("allowance_of", s, Address(a.id, f), granted_allowance)
    /\ UNCHANGED tokens_frame

NextTokens ==
    \/ CreateConnection
    \/ DisposeConnection
    \/ BalanceOf
    \/ AllowanceOf

SpecTokens == InitTokens /\ [][NextTokens]_vars

C20_WrongChainReadFails ==
    (chain_read.fn # "none" /\ chain_read.conn = "wrong_chain") =>
        (~chain_read.called /\ chain_read.err # "")


(***************************************************************************)
(* Properties of the bridge quote's failure handling (checked under Spec).  *)
(***************************************************************************)
\* the quote request succeeded and the answer has the envelope with all its fields
QuoteUsable(r) == r.transport = "ok" /\ r.missing = {}

BridgeQuoteErrors ==
    {"ConnectionError: fetch", "KeyError: transactionRequest", "KeyError: to",
     "KeyError: data", "KeyError: value"}

\* C21: when the bridge quote request fails or the answer lacks the
\* transaction envelope or one of its to, data, value fields,
\* build_bridge_call raises: a BridgeBuildResult exists only for an answer
\* that arrived and is complete, the pass is past build_bridge_call only with
\* such a result, and prepare_plan returns a plan only then; a pass that
\* raised one of these errors holds neither result nor plan.
C21_BridgeQuoteFailureIsFatal ==
    /\ bridge.returned => QuoteUsable(bridge.jumper_payload)
    /\ pc \in {"bridge_built", "plan_ready", "build_tx", "sign", "broadcast",
               "dry_run_done", "sent"} => bridge.returned
    /\ (relayer.plan /\ pc # "failed") => (bridge.returned /\ QuoteUsable(bridge.jumper_payload))
    /\ error \in BridgeQuoteErrors => (pc = "failed" /\ ~bridge.returned /\ ~relayer.plan)

\* the bridge quote was requested, its answer lacked the value field, and the
\* pass ended without a plan
C21_Witness ==
    /\ pc = "failed"
    /\ error = "KeyError: value"
    /\ Cardinality(RequestsTo("bridge")) = 1
    /\ ~bridge.returned
    /\ ~relayer.plan


\* C22: a call target that is not the zero address and differs from the
\* configured bridge router (compared without regard to case) never makes
\* validate_bridge_call raise: the step fails on the balance read only, the
\* mismatch is logged as a warning, and the result returned has the
\* required_native and has_sufficient_native that the router itself as
\* target gets for the same native_balance and native_value.
C22_TargetMismatchIsData ==
    /\ [][(pc = "bridge_built" /\ bridge.call_target # ZERO_ADDRESS
            /\ target_mismatch(bridge.call_target) /\ pc' # pc) =>
             \/ pc' = "failed" /\ error' = "ConnectionError: rpc"
             \/ /\ pc' = "plan_ready"
                /\ bridge_validation'.returned
                /\ bridge_validation'.call_target = bridge.call_target
                /\ LET m == validate_bridge_call(lifi_diamond_address,
                                                 bridge_validation'.native_balance,
                                                 SignedOf(bridge.native_value))
                   IN /\ m.err = ""
                      /\ bridge_validation'.required_native = m.result.required_native
                      /\ bridge_validation'.has_sufficient_native =
                            m.result.has_sufficient_native]_vars
    /\ [][(pc = "bridge_built" /\ bridge.call_target # ZERO_ADDRESS
            /\ target_mismatch(bridge.call_target)) =>
             \A native_balance \in NativeBalances :
                LET v == validate_bridge_call(bridge.call_target, native_balance,
                                              SignedOf(bridge.native_value))
                IN /\ v.err = ""
                   /\ "callTarget != expected LiFiDiamond" \in v.warnings]_vars
    /\ [][(pc = "bridge_built" /\ ~target_mismatch(bridge.call_target)) =>
             \A native_balance \in NativeBalances :
                "callTarget != expected LiFiDiamond" \notin
                   validate_bridge_call(bridge.call_target, native_balance,
                                        SignedOf(bridge.native_value)).warnings]_vars

\* a result returned for a call target that is neither zero nor the router
C22_Witness ==
    /\ pc = "plan_ready"
    /\ bridge.call_target # ZERO_ADDRESS
    /\ target_mismatch(bridge.call_target)
    /\ bridge_validation.returned
    /\ bridge_validation.call_target = bridge.call_target


\* C23: in every prepare_plan pass the validation runs after the bridge call
\* has been built: the re-read of the holding balances and allowances is
\* under way, or its results are in hand, only when build_bridge_call has
\* returned its BridgeBuildResult, and so is the native funding check.
C23_ValidationAfterBridge ==
    /\ (pc \in {"validate_swap", "validate_token"} \/ token_validations.returned) =>
          bridge.returned
    /\ bridge_validation.returned => bridge.returned


(***************************************************************************)
(* prepare_plan alone, over whitelists of two entries (two tokens, or one   *)
(* token address listed under two symbols), against a chain that moves on   *)
(* its own.                                                                 *)
(***************************************************************************)
PlanWhitelists == {w \in Whitelists : Len(w) = 2}

InitPlan ==
    /\ whitelist \in PlanWhitelists
    /\ slippage_tolerance = Tolerance(98, 2)
    /\ holding \in [TokenAddresses -> 0 .. MaxBalance]
    /\ contract_usdc = 0
    /\ pc = "swap_start"
    /\ error = ""
    /\ SwapLocalsIdle
    /\ swap = NoSwap
    /\ token_validations = NoValidations
    /\ jumper_request = 0 - 1
    /\ bridge = NoBridge
    /\ route_response = NoRoute
    /\ FnIdle
    /\ request_log = <<>>
    /\ bridge_validation = NoBridgeValidation
    /\ relayer = [mode |-> "dry_run", plan |-> FALSE, did |-> <<>>, gas |-> 0, tx_gas |-> 0]
    /\ passes = NoPasses
    /\ registry = NoRegistry
    /\ chain_read = NoChainRead

NextPlan ==
    \/ ExternalTransfer
    \/ SwapStart
    \/ SwapReadBalance
    \/ RunSwapQuote
    \/ SwapFilter
    \/ SwapFinish
    \/ ValidateExecutors
    \/ ValidateSwapStart
    \/ ValidateToken
    \/ ValidateSwapReturn
    \/ BridgeReadBalance
    \/ RunBridgeQuote
    \/ RunValidateBridge

SpecPlan == InitPlan /\ [][NextPlan]_vars


\* prepare_plan has returned its ExecutionPlan
PlanReturned == pc = "plan_ready"

\* C24: prepare_plan either raises or returns a complete ExecutionPlan.  A
\* returned plan holds the swap result, the token validations, the bridge
\* call and the bridge validation; it has one TokenValidationResult per
\* InputToken, in the same order, with required_amount = amountIn and
\* balance >= required_amount; its bridge call target is not the zero
\* address and bridge.min_total_usdc = swap.min_total_usdc.  A pass that
\* raised holds no part of a plan.
C24_PlanIsComplete ==
    /\ relayer.plan <=> PlanReturned
    /\ PlanReturned =>
          /\ swap.returned
          /\ token_validations.returned
          /\ bridge.returned
          /\ bridge_validation.returned
          /\ Len(token_validations.results) = Len(swap.input_tokens)
          /\ \A i \in 1 .. Len(swap.input_tokens) :
                /\ token_validations.results[i].token_address =
                      to_checksum_address(swap.input_tokens[i][1])
                /\ token_validations.results[i].required_amount = swap.input_tokens[i][2]
                /\ token_validations.results[i].balance >=
                      token_validations.results[i].required_amount
          /\ bridge.call_target # ZERO_ADDRESS
          /\ bridge_validation.call_target = bridge.call_target
          /\ bridge.min_total_usdc = swap.min_total_usdc
    /\ pc = "failed" =>
          /\ error # ""
          /\ ~swap.returned
          /\ ~token_validations.returned
          /\ ~bridge.returned
          /\ ~bridge_validation.returned

\* a plan returned for two different tokens
C24_Witness ==
    /\ PlanReturned
    /\ Len(swap.input_tokens) = 2
    /\ swap.input_tokens[1][1] # swap.input_tokens[2][1]
    /\ Len(token_validations.results) = 2
    /\ token_validations.results[1].token_address = swap.input_tokens[1][1]
    /\ token_validations.results[2].token_address = swap.input_tokens[2][1]


\* sum of amountIn over the InputTokens of a token address
RECURSIVE PlannedTotal(_, _)
PlannedTotal(inputs, a) ==
    IF inputs = <<>> THEN 0
    ELSE (IF to_checksum_address(Head(inputs)[1]) = a THEN Head(inputs)[2] ELSE 0)
         + PlannedTotal(Tail(inputs), a)

\* C25: for every ExecutionPlan returned by prepare_plan and every token
\* address, the amountIn of all InputTokens with that address add up to no
\* more than the holding account's balance of the token as validation
\* observed it, also when the whitelist lists the address under two symbols.
C25_PlannedWithinBalance ==
    PlanReturned =>
       \A j \in 1 .. Len(token_validations.results) :
          PlannedTotal(swap.input_tokens, token_validations.results[j].token_address)
             <= token_validations.results[j].balance


\* C26: every ExecutorCall that build_swap_parameters puts in its list, and
\* every one in a SwapBuildResult it returns, has native value 0, whatever
\* value the decoded route payload carried for that executor; the call
\* appended for a token has the quote's executor and payload.
C26_ExecutorValueZero ==
    /\ [](\A i \in 1 .. Len(executors) : executors[i][2] = 0)
    /\ [](swap.returned => \A i \in 1 .. Len(swap.executors) : swap.executors[i][2] = 0)
    /\ [][(pc = "swap_filter" /\ Len(executors') > Len(executors)) =>
             /\ executors'[Len(executors')][1] = sushi_quote.executor
             /\ executors'[Len(executors')][2] = 0
             /\ executors'[Len(executors')][3] = sushi_quote.executor_data]_vars

\* a SwapBuildResult whose executor call was taken from the multi-execution
\* payload, which carries native value 1 for that executor
C26_Witness ==
    /\ swap.returned
    /\ payload_value(MultiTx) = 1
    /\ \E i \in 1 .. Len(swap.executors) :
          /\ swap.executors[i][1] = decode_route(MultiTx).executor
          /\ swap.executors[i][3] = hex_to_bytes(decode_route(MultiTx).executor_data)
          /\ swap.executors[i][3] # <<>>
          /\ swap.executors[i][2] = 0


(***************************************************************************)
(* Properties of execute_send after the plan is returned (checked under     *)
(* Spec).                                                                   *)
(***************************************************************************)
Occurrences(seq, x) == Cardinality({i \in 1 .. Len(seq) : seq[i] = x})

UsedFallback == Occurrences(relayer.did, "fallback_gas") = 1

SubmissionSteps == {"plan_ready", "build_tx", "sign", "broadcast"}

====
